---- MODULE Spec2Model ----
(***************************************************************************)
(* The part-number autofill engine of static/autofill.js: the value        *)
(* formatters, the family grammars, the prefix-mapping category lock, the  *)
(* cascade of autoFillFromPartNumber and the bulk driver fillBulkPaste,    *)
(* run against a small model of the page (the table rows with their        *)
(* part_number / description / category fields).                           *)
(*                                                                         *)
(* A JavaScript string is a sequence of one-character strings, so that     *)
(* trimming, case folding, splitting and the regular expressions are       *)
(* computed character by character as the code computes them.  A regular   *)
(* expression is an operator that gives the length of its match at one     *)
(* position (0 when it does not match there); an unanchored match takes    *)
(* the leftmost position that matches.  The modelled inputs are ASCII.     *)
(***************************************************************************)
EXTENDS Integers, Sequences, FiniteSets, TLC

VARIABLES
    rows,           \* the table rows in document order: part_number value, description value, category value, field presence
    options,        \* the <option>s of the category select: text and value
    mappings,       \* window.categoryPrefixMappings: whether it is an array, and its entries
    addRowDefined,  \* typeof addRow === "function"
    inputListener,  \* whether an input listener of the part_number fields calls autoFillFromPartNumber
    last,           \* what the most recent operation did: its effects in program order
    calls           \* operations performed so far

vars == <<rows, options, mappings, addRowDefined, inputListener, last, calls>>

----------------------------------------------------------------------------
(* Characters *)

Digits == {"0", "1", "2", "3", "4", "5", "6", "7", "8", "9"}
DigitSeq == <<"0", "1", "2", "3", "4", "5", "6", "7", "8", "9">>
LowerLetters == <<"a", "b", "c", "d", "e", "f", "g", "h", "i", "j", "k", "l", "m",
                  "n", "o", "p", "q", "r", "s", "t", "u", "v", "w", "x", "y", "z">>
UpperLetters == <<"A", "B", "C", "D", "E", "F", "G", "H", "I", "J", "K", "L", "M",
                  "N", "O", "P", "Q", "R", "S", "T", "U", "V", "W", "X", "Y", "Z">>
LowerSet == {"a", "b", "c", "d", "e", "f", "g", "h", "i", "j", "k", "l", "m",
             "n", "o", "p", "q", "r", "s", "t", "u", "v", "w", "x", "y", "z"}
UpperSet == {"A", "B", "C", "D", "E", "F", "G", "H", "I", "J", "K", "L", "M",
             "N", "O", "P", "Q", "R", "S", "T", "U", "V", "W", "X", "Y", "Z"}
Whitespace == {" ", "\t", "\n", "\r"}

\* The position of the letter c in the alphabet x
IndexIn(x, c) == CHOOSE k \in 1..26 : x[k] = c
LowerOf == [c \in UpperSet |-> LowerLetters[IndexIn(UpperLetters, c)]]
UpperOf == [c \in LowerSet |-> UpperLetters[IndexIn(LowerLetters, c)]]
DigitValue == [c \in Digits |-> (CHOOSE k \in 1..10 : DigitSeq[k] = c) - 1]

\* [0-9a-z\.] under the i flag, and [a-z0-9]
AlnumDot == Digits \cup LowerSet \cup UpperSet \cup {"."}
LowerAlnum == Digits \cup LowerSet

Min(S) == CHOOSE x \in S : \A y \in S : x <= y
Max(S) == CHOOSE x \in S : \A y \in S : x >= y

----------------------------------------------------------------------------
(* String.prototype operations *)

toLowerCase(s) == [k \in 1..Len(s) |-> IF s[k] \in UpperSet THEN LowerOf[s[k]] ELSE s[k]]
toUpperCase(s) == [k \in 1..Len(s) |-> IF s[k] \in LowerSet THEN UpperOf[s[k]] ELSE s[k]]

trim(s) ==
    LET keep == {k \in 1..Len(s) : s[k] \notin Whitespace}
    IN  IF keep = {} THEN <<>> ELSE SubSeq(s, Min(keep), Max(keep))

startsWith(s, p) == Len(p) <= Len(s) /\ SubSeq(s, 1, Len(p)) = p

\* s.slice(k - 1): the rest of s from position k (1-based)
From(s, k) == SubSeq(s, k, Len(s))

\* The length of the longest run of characters of class C that starts at position p.
Run(s, p, C) ==
    LET stops == {k \in p..Len(s) : s[k] \notin C}
    IN  IF p > Len(s) THEN 0 ELSE (IF stops = {} THEN Len(s) + 1 ELSE Min(stops)) - p

\* Whether the lower-case text lit stands at position p, in either case (the i flag).
LitAt(s, p, lit) ==
    /\ p >= 1
    /\ p + Len(lit) - 1 <= Len(s)
    /\ toLowerCase(SubSeq(s, p, p + Len(lit) - 1)) = lit

\* s.includes(c) for a character c
includes(s, c) == \E k \in 1..Len(s) : s[k] = c

\* s.split(/[seps]/): the segments between separators, empty ones kept
RECURSIVE split(_, _)
split(s, seps) ==
    LET at == {k \in 1..Len(s) : s[k] \in seps}
    IN  IF at = {} THEN <<s>>
        ELSE <<SubSeq(s, 1, Min(at) - 1)>> \o split(From(s, Min(at) + 1), seps)

\* parts.join(sep)
RECURSIVE join(_, _)
join(parts, sep) ==
    IF parts = <<>> THEN <<>>
    ELSE IF Len(parts) = 1 THEN parts[1]
    ELSE parts[1] \o sep \o join(Tail(parts), sep)

\* xs.filter(Boolean) on strings: the non-empty ones
NonEmpty(x) == x # <<>>
filterBoolean(xs) == SelectSeq(xs, NonEmpty)

\* xs.map(t => t.trim())
mapTrim(xs) == [k \in 1..Len(xs) |-> trim(xs[k])]

\* s.replace(/c/g, d) for characters c, d
replaceAll(s, c, d) == [k \in 1..Len(s) |-> IF s[k] = c THEN d ELSE s[k]]

\* The least element of a set of positions, 0 for the empty set
Least(ps) == IF ps = {} THEN 0 ELSE Min(ps)

\* The leftmost position at which the matcher M matches, 0 when none does.
FirstPos(s, M(_, _)) == Least({p \in 1..Len(s) : M(s, p) > 0})

\* table[key] for an object literal written as a sequence of records with a key
\* field: the record in a one-element sequence, <<>> when the key is absent
Found(table, hits) == IF hits = {} THEN <<>> ELSE <<table[Min(hits)]>>
Lookup(table, key) == Found(table, {a \in DOMAIN table : table[a].key = key})

\* s.match(re)[0] for the matcher M of re: the text of the leftmost match, "" when
\* there is none (a match of these expressions is never empty)
MatchFrom(s, p, M(_, _)) == IF p = 0 THEN <<>> ELSE SubSeq(s, p, p + M(s, p) - 1)
MatchOf(s, M(_, _)) == MatchFrom(s, FirstPos(s, M), M)

\* /\d+(\.\d+)?/ at position p, given the length n1 of the run of digits there
DecimalFrom(s, p, n1) ==
    IF n1 > 0 /\ p + n1 + 1 <= Len(s) /\ s[p + n1] = "." /\ s[p + n1 + 1] \in Digits
    THEN n1 + 1 + Run(s, p + n1 + 1, Digits)
    ELSE n1
DecimalAt(s, p) == DecimalFrom(s, p, Run(s, p, Digits))

\* A match of length n at position p followed by the lower-case text lit
Then(s, p, n, lit) == IF n > 0 /\ LitAt(s, p + n, lit) THEN n + Len(lit) ELSE 0

----------------------------------------------------------------------------
(* Numbers.  A decimal numeral is a pair of digit strings (integer part,   *)
(* fraction part); the modelled magnitudes stay far inside the range in    *)
(* which Number-to-string is plain decimal notation.                       *)

RECURSIVE ToNat(_)
ToNat(ds) == IF ds = <<>> THEN 0 ELSE 10 * ToNat(SubSeq(ds, 1, Len(ds) - 1)) + DigitValue[ds[Len(ds)]]

RECURSIVE NatToString(_)
NatToString(n) == IF n < 10 THEN <<DigitSeq[n + 1]>> ELSE NatToString(n \div 10) \o <<DigitSeq[(n % 10) + 1]>>

RECURSIVE Pow10(_)
Pow10(k) == IF k = 0 THEN 1 ELSE 10 * Pow10(k - 1)

StripLeadingZeros(ds) ==
    LET nz == {k \in 1..Len(ds) : ds[k] # "0"}
    IN  IF nz = {} THEN <<"0">> ELSE From(ds, Min(nz))

StripTrailingZeros(ds) ==
    LET nz == {k \in 1..Len(ds) : ds[k] # "0"}
    IN  IF nz = {} THEN <<>> ELSE SubSeq(ds, 1, Max(nz))

\* String(Number("<int>.<frac>")): no leading zeros, no trailing fraction zeros
NumberToString(int, frac) ==
    LET i == StripLeadingZeros(int)
        f == StripTrailingZeros(frac)
    IN  IF f = <<>> THEN i ELSE i \o <<".">> \o f

\* String(x) for the number x = int.frac
NumberText(x) == NumberToString(x.int, x.frac)

\* parseFloat(s): the longest prefix <digits>[.<digits>] or .<digits>; NaN when
\* there is none.  (An exponent part is not modelled: no modelled input has a
\* digit followed by "e" and a digit at the places parseFloat is applied.)
NaN == [nan |-> TRUE, int |-> <<>>, frac |-> <<>>]
Numeral(t, ni, nf) ==
    IF ni = 0 /\ nf = 0 THEN NaN
    ELSE [nan |-> FALSE, int |-> SubSeq(t, 1, ni), frac |-> SubSeq(t, ni + 2, ni + 1 + nf)]
NumeralFrom(t, ni) ==
    Numeral(t, ni, IF ni + 1 <= Len(t) /\ t[ni + 1] = "." THEN Run(t, ni + 2, Digits) ELSE 0)
NumeralOf(t) == NumeralFrom(t, Run(t, 1, Digits))
parseFloat(s) == NumeralOf(From(s, Run(s, 1, Whitespace) + 1))

\* x.toFixed(2) for x = n / 10^k (n, k naturals): the hundredths nearest to x.
\* A decimal tie is rounded up, which is what toFixed does when the tie is
\* exact in binary; the modelled inputs have no other ties.
Hundredths(h) ==
    NatToString(h \div 100) \o <<".">> \o <<DigitSeq[((h \div 10) % 10) + 1], DigitSeq[(h % 10) + 1]>>
toFixed2(n, k) ==
    Hundredths(IF k <= 2 THEN n * Pow10(2 - k) ELSE (n + 5 * Pow10(k - 3)) \div Pow10(k - 2))

\* str.replace(/\.00$/, "")
StripDot00(s) ==
    IF Len(s) >= 3 /\ From(s, Len(s) - 2) = <<".", "0", "0">> THEN SubSeq(s, 1, Len(s) - 3) ELSE s

----------------------------------------------------------------------------
(* Helpers: tolerance, wattage, voltage.  A function that returns null or  *)
(* "" or a non-empty string is modelled with <<>> for null and "": its     *)
(* callers only test the result for truthiness.                            *)

IsDigits(s) == s # <<>> /\ \A k \in 1..Len(s) : s[k] \in Digits

ToleranceLiterals == << <<"1", "%">>, <<"2", "%">>, <<"5", "%">>, <<"1", "0", "%">>, <<"2", "0", "%">> >>

\* /(1%|2%|5%|10%|20%)/i at position p: the first alternative that stands there
ToleranceAt(s, p) ==
    LET hits == {a \in DOMAIN ToleranceLiterals : LitAt(s, p, ToleranceLiterals[a])}
    IN  IF hits = {} THEN 0 ELSE Len(ToleranceLiterals[Min(hits)])

extractTolerance(pn) == toUpperCase(MatchOf(pn, ToleranceAt))

\* /(\d+(\.\d+)?W)/i at position p
WattageAt(s, p) == Then(s, p, DecimalAt(s, p), <<"w">>)

extractWattage(pn) == toUpperCase(MatchOf(pn, WattageAt))

\* /(\d+V)/i at position p
VoltageAt(s, p) == Then(s, p, Run(s, p, Digits), <<"v">>)

extractVoltage(pn) == toUpperCase(MatchOf(pn, VoltageAt))

----------------------------------------------------------------------------
(* Helper: format resistor values *)

Ohm == <<"Ω">>

\* shorthandMatch[2] === "K" ? "k" : shorthandMatch[2] === "M" ? "M" : ""
UnitPrefix(letter) == IF letter = "K" THEN <<"k">> ELSE IF letter = "M" THEN <<"M">> ELSE <<>>

\* A faulty scaling: String(numeric / 10^e), every trailing zero dropped
ScaledPlain(f, e) ==
    NumberToString(SubSeq(toFixed2(ToNat(f.int \o f.frac), Len(f.frac) + e), 1,
                          Len(toFixed2(ToNat(f.int \o f.frac), Len(f.frac) + e)) - 3),
                   From(toFixed2(ToNat(f.int \o f.frac), Len(f.frac) + e),
                        Len(toFixed2(ToNat(f.int \o f.frac), Len(f.frac) + e)) - 1))

\* (numeric / 10^e).toFixed(2).replace(/\.00$/, "") for numeric = int.frac
Scaled(f, e) == StripDot00(toFixed2(ToNat(f.int \o f.frac), Len(f.frac) + e))

\* val.replace(/R/i, "Ω"): the first r or R only
ReplaceFirstR(val) ==
    LET at == {k \in 1..Len(val) : val[k] \in {"r", "R"}}
    IN  IF at = {} THEN val
        ELSE SubSeq(val, 1, Min(at) - 1) \o Ohm \o From(val, Min(at) + 1)

\* formatResistor with upper = val.toUpperCase(), n1 the length of the run of
\* digits upper starts with, numeric = parseFloat(val)
formatResistorOf(val, upper, n1, numeric) ==
    \* /^(\d+)([RKM])(\d+)$/
    IF n1 > 0 /\ n1 + 1 <= Len(upper) /\ upper[n1 + 1] \in {"R", "K", "M"} /\ IsDigits(From(upper, n1 + 2))
    THEN NumberToString(SubSeq(upper, 1, n1), From(upper, n1 + 2)) \o UnitPrefix(upper[n1 + 1]) \o Ohm
    \* /^(\d+(\.\d+)?)([RKM])$/ (and, after it, /^(\d+(\.\d+)?)R$/, which it subsumes)
    ELSE IF n1 > 0 /\ DecimalFrom(upper, 1, n1) + 1 = Len(upper) /\ upper[Len(upper)] \in {"R", "K", "M"}
    THEN NumberText(parseFloat(SubSeq(upper, 1, Len(upper) - 1))) \o UnitPrefix(upper[Len(upper)]) \o Ohm
    ELSE IF ~numeric.nan
    THEN IF ToNat(numeric.int) >= 1000000 THEN Scaled(numeric, 6) \o <<"M">> \o Ohm
         ELSE IF ToNat(numeric.int) >= 1000 THEN Scaled(numeric, 3) \o <<"k">> \o Ohm
         ELSE NumberText(numeric) \o Ohm
    ELSE ReplaceFirstR(val)

formatResistor(val) == formatResistorOf(val, toUpperCase(val), Run(val, 1, Digits), parseFloat(val))

----------------------------------------------------------------------------
(* Wattage normalisation and capacitor value parsing *)

\* /([\d.]+)/ at position p
NumberRunAt(s, p) == Run(s, p, Digits \cup {"."})

\* the fractions table: its keys as String(key)
WattFractions ==
    << [key |-> <<"0", ".", "1", "2", "5">>, text |-> <<"1", "/", "8", "w">>],
       [key |-> <<"0", ".", "2", "5">>,  text |-> <<"1", "/", "4", "w">>],
       [key |-> <<"0", ".", "5">>,   text |-> <<"1", "/", "2", "w">>],
       [key |-> <<"0", ".", "7", "5">>,  text |-> <<"3", "/", "4", "w">>] >>

\* fractions[numeric] || `${numeric}w`, for numeric shown as String(numeric)
WattText(shown, fraction) == IF fraction # <<>> THEN fraction[1].text ELSE shown \o <<"w">>

\* normalizeWattage from numeric = parseFloat(match[1]); it is NaN too when
\* there was no match
normalizeWattageOf(wattStr, numeric) ==
    IF numeric.nan THEN wattStr
    ELSE WattText(NumberText(numeric), Lookup(WattFractions, NumberText(numeric)))

normalizeWattage(wattStr) ==
    IF wattStr = <<>> THEN <<>>
    ELSE normalizeWattageOf(wattStr, parseFloat(MatchOf(wattStr, NumberRunAt)))

\* /(\d+)[ur](\d+)/ at position p, given the length n1 of the run of digits there
CapShorthandFrom(s, p, n1) ==
    IF n1 > 0 /\ p + n1 + 1 <= Len(s) /\ s[p + n1] \in {"u", "r"} /\ s[p + n1 + 1] \in Digits
    THEN n1 + 1 + Run(s, p + n1 + 1, Digits)
    ELSE 0
CapShorthandAt(s, p) == CapShorthandFrom(s, p, Run(s, p, Digits))

\* /(\d+)u/ at position p
CapMicroAt(s, p) == Then(s, p, Run(s, p, Digits), <<"u">>)

\* /([\d\.]+)\s*u?f/ at position p, given the position q after the number and the spaces
CapFaradFrom(s, p, q) ==
    IF q + 1 <= Len(s) /\ s[q] = "u" /\ s[q + 1] = "f" THEN q + 2 - p
    ELSE IF q <= Len(s) /\ s[q] = "f" THEN q + 1 - p
    ELSE 0
CapFaradAt(s, p) ==
    IF NumberRunAt(s, p) = 0 THEN 0
    ELSE CapFaradFrom(s, p, p + NumberRunAt(s, p) + Run(s, p + NumberRunAt(s, p), Whitespace))

\* parseCapacitance from the texts the three expressions match in raw.toLowerCase()
parseCapacitanceOf(shorthand, micro, farad) ==
    IF shorthand # <<>>
    THEN SubSeq(shorthand, 1, Run(shorthand, 1, Digits)) \o <<".">>
         \o From(shorthand, Run(shorthand, 1, Digits) + 2) \o <<"u", "F">>
    ELSE IF micro # <<>> THEN SubSeq(micro, 1, Len(micro) - 1) \o <<"u", "F">>
    ELSE IF farad # <<>> THEN SubSeq(farad, 1, NumberRunAt(farad, 1)) \o <<"u", "F">>
    ELSE <<>>

parseCapacitance(raw) ==
    IF raw = <<>> THEN <<>>
    ELSE parseCapacitanceOf(MatchOf(toLowerCase(raw), CapShorthandAt),
                            MatchOf(toLowerCase(raw), CapMicroAt),
                            MatchOf(toLowerCase(raw), CapFaradAt))

----------------------------------------------------------------------------
(* Mechanical description builder *)

\* MECHANICAL_TYPE_DETAILS
MECHANICAL_TYPE_DETAILS ==
    << [key |-> <<"h", "s", "t">>,        label |-> <<"H", "e", "a", "t", " ", "S", "h", "r", "i", "n", "k">>, category |-> <<"M", "e", "c", "h", "a", "n", "i", "c", "a", "l">>, specSuffix |-> <<>>,         joiner |-> <<" ", "-", " ">>],
       [key |-> <<"s", "h", "r", "i", "n", "k">>,     label |-> <<"H", "e", "a", "t", " ", "S", "h", "r", "i", "n", "k">>, category |-> <<"M", "e", "c", "h", "a", "n", "i", "c", "a", "l">>, specSuffix |-> <<>>,         joiner |-> <<" ", "-", " ">>],
       [key |-> <<"h", "e", "a", "t", "s", "h", "r", "i", "n", "k">>, label |-> <<"H", "e", "a", "t", " ", "S", "h", "r", "i", "n", "k">>, category |-> <<"M", "e", "c", "h", "a", "n", "i", "c", "a", "l">>, specSuffix |-> <<>>,         joiner |-> <<" ", "-", " ">>],
       [key |-> <<"n", "u", "t">>,        label |-> <<"N", "u", "t">>,         category |-> <<"M", "e", "c", "h", "a", "n", "i", "c", "a", "l">>, specSuffix |-> <<>>,         joiner |-> <<" ">>],
       [key |-> <<"b", "l", "t">>,        label |-> <<"B", "o", "l", "t">>,        category |-> <<"M", "e", "c", "h", "a", "n", "i", "c", "a", "l">>, specSuffix |-> <<>>,         joiner |-> <<" ", "-", " ">>],
       [key |-> <<"w", "s", "h">>,        label |-> <<"W", "a", "s", "h", "e", "r">>,      category |-> <<"M", "e", "c", "h", "a", "n", "i", "c", "a", "l">>, specSuffix |-> <<" ", "d", "i", "a", "m", "e", "t", "e", "r">>, joiner |-> <<" ">>],
       [key |-> <<"r", "n", "g">>,        label |-> <<"O", "-", "R", "i", "n", "g">>,      category |-> <<"M", "e", "c", "h", "a", "n", "i", "c", "a", "l">>, specSuffix |-> <<" ", "d", "i", "a", "m", "e", "t", "e", "r">>, joiner |-> <<" ">>],
       [key |-> <<"s", "p", "c">>,        label |-> <<"S", "p", "a", "c", "e", "r">>,      category |-> <<"M", "e", "c", "h", "a", "n", "i", "c", "a", "l">>, specSuffix |-> <<" ", "d", "i", "a", "m", "e", "t", "e", "r">>, joiner |-> <<" ">>],
       [key |-> <<"s", "t", "f">>,        label |-> <<"S", "t", "a", "n", "d", "o", "f", "f">>,    category |-> <<"M", "e", "c", "h", "a", "n", "i", "c", "a", "l">>, specSuffix |-> <<>>,         joiner |-> <<" ", "-", " ">>],
       [key |-> <<"s", "t", "a", "n", "d", "o", "f", "f">>,   label |-> <<"S", "t", "a", "n", "d", "o", "f", "f">>,    category |-> <<"M", "e", "c", "h", "a", "n", "i", "c", "a", "l">>, specSuffix |-> <<>>,         joiner |-> <<" ", "-", " ">>],
       [key |-> <<"s", "p", "a", "c", "e", "r">>,     label |-> <<"S", "p", "a", "c", "e", "r">>,      category |-> <<"M", "e", "c", "h", "a", "n", "i", "c", "a", "l">>, specSuffix |-> <<" ", "d", "i", "a", "m", "e", "t", "e", "r">>, joiner |-> <<" ">>],
       [key |-> <<"w", "a", "s", "h", "e", "r">>,     label |-> <<"W", "a", "s", "h", "e", "r">>,      category |-> <<"M", "e", "c", "h", "a", "n", "i", "c", "a", "l">>, specSuffix |-> <<" ", "d", "i", "a", "m", "e", "t", "e", "r">>, joiner |-> <<" ">>],
       [key |-> <<"b", "e", "a", "r", "i", "n", "g">>,    label |-> <<"B", "e", "a", "r", "i", "n", "g">>,     category |-> <<"M", "e", "c", "h", "a", "n", "i", "c", "a", "l">>, specSuffix |-> <<" ", "d", "i", "a", "m", "e", "t", "e", "r">>, joiner |-> <<" ">>] >>

\* A lower-case key that the object literal inherits from Object.prototype: the
\* lookup MECHANICAL_TYPE_DETAILS[typeKey] is truthy for it, and what it gives
\* has no label, category, specSuffix or joiner: typeDetail?.label and
\* typeDetail?.category are undefined, typeDetail?.joiner ?? " " is " ".
InheritedKeys == { <<"c", "o", "n", "s", "t", "r", "u", "c", "t", "o", "r">>, <<"_", "_", "p", "r", "o", "t", "o", "_", "_">> }
InheritedDetail ==
    [key |-> <<>>, label |-> <<>>, category |-> <<>>, specSuffix |-> <<>>, joiner |-> <<" ">>]

GENERIC_PREFIX_SKIP == { <<"m", "e", "c">>, <<"r", "e", "s">>, <<"c", "a", "p">>, <<"i", "c">>, <<"m", "c", "u">>, <<"p", "c", "b">>, <<"a", "s", "m">> }

\* /^\d+(?:_\d+)+(?:in)?$/i
IsUnderscoreFraction(s) ==
    \E segs \in {split(IF LitAt(s, Len(s) - 1, <<"i", "n">>) THEN SubSeq(s, 1, Len(s) - 2) ELSE s, {"_"})} :
        Len(segs) >= 2 /\ \A k \in 1..Len(segs) : IsDigits(segs[k])

\* normalizeToken from normalized = token.trim()
normalizeTrimmed(normalized) ==
    IF ~includes(normalized, "_") THEN normalized
    ELSE IF IsUnderscoreFraction(normalized) THEN replaceAll(normalized, "_", "/")
    ELSE replaceAll(normalized, "_", " ")

normalizeToken(token) == normalizeTrimmed(trim(token))

\* A faulty conversion: Math.floor in place of Math.round
FlooredInches(parsed) ==
    IF parsed.nan THEN [isNull |-> TRUE, twentieths |-> 0]
    ELSE [isNull |-> FALSE,
          twentieths |-> (200 * ToNat(parsed.int \o parsed.frac)) \div (254 * Pow10(Len(parsed.frac)))]

\* Math.round((parsed / 25.4) * 20) / 20 for parsed = int.frac, kept as the
\* number of twentieths of an inch; null (parseFloat gave NaN) is [isNull |-> TRUE].
RoundedInches(parsed) ==
    IF parsed.nan THEN [isNull |-> TRUE, twentieths |-> 0]
    ELSE [isNull |-> FALSE,
          twentieths |-> (400 * ToNat(parsed.int \o parsed.frac) + 254 * Pow10(Len(parsed.frac)))
                         \div (508 * Pow10(Len(parsed.frac)))]

mmToInchesRounded(mm) == RoundedInches(parseFloat(mm))

\* formatInches from str = inches.toFixed(2), with the default stripLeadingZero = true
InchesText(twentieths, str) ==
    \* .replace(/(\.\d*[1-9])0$/, "$1").replace(/\.00$/, "")
    IF twentieths >= 20
    THEN (IF str[Len(str)] = "0" /\ str[Len(str) - 1] # "0"
          THEN SubSeq(str, 1, Len(str) - 1) ELSE StripDot00(str)) \o <<"\"">>
    \* .replace(/^0/, "")
    ELSE IF twentieths > 0 THEN Tail(str) \o <<"\"">>
    ELSE str \o <<"\"">>

formatInches(inches) ==
    IF inches.isNull THEN <<>>
    ELSE InchesText(inches.twentieths, toFixed2(5 * inches.twentieths, 2))

\* /^\d+\/\d+$/
IsFraction(s) ==
    /\ Run(s, 1, Digits) > 0
    /\ Run(s, 1, Digits) + 1 <= Len(s)
    /\ s[Run(s, 1, Digits) + 1] = "/"
    /\ IsDigits(From(s, Run(s, 1, Digits) + 2))

\* /^\d+(u1|u2|...)$/i for a set of lower-case unit spellings
IsDigitsWithUnit(s, units) ==
    Run(s, 1, Digits) > 0 /\ toLowerCase(From(s, Run(s, 1, Digits) + 1)) \in units

\* /^\d+(?:\.\d+)?$/
IsDecimal(s) == s # <<>> /\ DecimalAt(s, 1) = Len(s)

\* normalized.charAt(0).toUpperCase() + normalized.slice(1).toLowerCase()
Capitalize(s) == toUpperCase(<<s[1]>>) \o toLowerCase(Tail(s))

\* formatMechanicalSize from normalized = normalizeToken(token)
SizeText(normalized, sizeToken) ==
    LET n == Len(normalized)
        inches == formatInches(mmToInchesRounded(normalized))
    IN  IF normalized = <<>> THEN <<>>
        ELSE IF IsFraction(normalized) THEN normalized \o <<"\"">>
        ELSE IF LitAt(normalized, n - 1, <<"i", "n">>) /\ IsFraction(SubSeq(normalized, 1, n - 2))
        THEN SubSeq(normalized, 1, n - 2) \o <<"\"">>
        ELSE IF IsDigitsWithUnit(normalized, { <<"m", "m">>, <<"c", "m">>, <<"m">>, <<"i", "n">> })
        THEN IF LitAt(normalized, n - 1, <<"i", "n">>)
             THEN SubSeq(normalized, 1, n - 2) \o <<"\"">>
             ELSE inches
        ELSE IF IsDecimal(normalized)
        THEN IF sizeToken /\ IsDigits(normalized) THEN <<"M">> \o normalized ELSE inches
        ELSE IF LitAt(normalized, 1, <<"m">>) /\ Run(normalized, 2, Digits) > 0
        THEN toUpperCase(normalized)
        ELSE IF n <= 3 THEN toUpperCase(normalized)
        ELSE Capitalize(normalized)

formatMechanicalSize(token, sizeToken) == SizeText(normalizeToken(token), sizeToken)

\* formatMechanicalSpec from normalized = normalizeToken(token); its last
\* resort, formatMechanicalSize(token), normalizes the same token again
SpecText(normalized) ==
    IF normalized = <<>> THEN <<>>
    ELSE IF IsDigits(normalized) \/ IsDigitsWithUnit(normalized, { <<"m", "m">> })
    THEN formatInches(mmToInchesRounded(normalized))
    ELSE IF IsFraction(normalized) THEN normalized \o <<"\"">>
    ELSE SizeText(normalized, FALSE)

formatMechanicalSpec(token) == SpecText(normalizeToken(token))

\* The canonical spelling of a rating unit
RatingUnits ==
    << [key |-> <<"k", "v">>, text |-> <<"k", "V">>], [key |-> <<"v">>, text |-> <<"V">>],
       [key |-> <<"m", "a">>, text |-> <<"m", "A">>], [key |-> <<"a">>, text |-> <<"A">>] >>

\* value.replace(/(\.\d*[1-9])0+$/, "$1").replace(/\.0+$/, "") for value = <int>[.<frac>]
RatingValue(int, frac) == IF frac = <<>> THEN int ELSE int \o <<".">> \o frac

\* /^(\d+(?:\.\d+)?)(kv|v|ma|a)$/ on normalized, given the lengths n1 of its leading
\* run of digits and body of its leading decimal, and the unit looked up
RatingFrom(normalized, n1, body, unit) ==
    IF n1 = 0 \/ unit = <<>> THEN <<>>
    ELSE RatingValue(SubSeq(normalized, 1, n1), StripTrailingZeros(SubSeq(normalized, n1 + 2, body)))
         \o unit[1].text

RatingText(normalized) ==
    RatingFrom(normalized, Run(normalized, 1, Digits), DecimalAt(normalized, 1),
               Lookup(RatingUnits, From(normalized, DecimalAt(normalized, 1) + 1)))

normalizeRatingToken(token) == RatingText(toLowerCase(trim(token)))

\* token.replace(/h$/i, ""); the micro sign is outside the modelled alphabet
DropFinalH(token) ==
    IF token # <<>> /\ token[Len(token)] = "h" THEN SubSeq(token, 1, Len(token) - 1) ELSE token

\* formatInductorValue from the token without its final h, given the lengths n1
\* of its leading run of digits and body of its leading decimal
InductorFrom(token, n1, body) ==
    IF n1 = 0 THEN token
    \* /^\d+[mun]\d*$/i
    ELSE IF /\ n1 + 1 <= Len(token) /\ token[n1 + 1] \in {"m", "u", "n"}
            /\ \A k \in (n1 + 2)..Len(token) : token[k] \in Digits
    THEN token
    \* /^(\d+)(?:\.(\d+))?([mun])?$/
    ELSE IF body = Len(token) THEN SubSeq(token, 1, n1) \o <<"u">> \o SubSeq(token, n1 + 2, body)
    ELSE IF body + 1 = Len(token) /\ token[body + 1] \in {"m", "u", "n"}
    THEN SubSeq(token, 1, n1) \o <<token[body + 1]>> \o SubSeq(token, n1 + 2, body)
    ELSE token

InductorText(token) == InductorFrom(token, Run(token, 1, Digits), DecimalAt(token, 1))

formatInductorValue(raw) == InductorText(DropFinalH(toLowerCase(trim(raw))))

\* A builder's result: null is [matched |-> FALSE]; an absent category is <<>>.
Declined == [matched |-> FALSE, description |-> <<>>, category |-> <<>>, typeLabel |-> <<>>]
Built(description, category, typeLabel) ==
    [matched |-> TRUE, description |-> description, category |-> category, typeLabel |-> typeLabel]

\* /^<family>[-_]/i.test(pn), and pn.replace(/^<family>[-_]?/i, "") when it holds
HasFamilyPrefix(pn, family) ==
    /\ LitAt(pn, 1, family)
    /\ Len(pn) > Len(family)
    /\ pn[Len(family) + 1] \in {"-", "_"}
StripFamilyPrefix(pn, family) == From(pn, Len(family) + 2)

\* cleaned.split(re).map((t) => t.trim()).filter(Boolean)
Segments(cleaned, seps) == filterBoolean(mapTrim(split(cleaned, seps)))

mapFormatMechanicalSpec(xs) == [k \in 1..Len(xs) |-> formatMechanicalSpec(xs[k])]

\* description, from typeLabel on
MechanicalText(typeLabel, sizeDesc, specDesc, typeDetail) ==
    typeLabel
    \o (IF sizeDesc # <<>> THEN <<" ">> \o sizeDesc ELSE <<>>)
    \o (IF specDesc # <<>> THEN typeDetail.joiner \o specDesc \o typeDetail.specSuffix ELSE <<>>)

\* buildMechanicalDescription from the rest of the segments on
MechanicalBuilt(rest, typeDetail, typeLabel) ==
    IF rest = <<>> THEN Built(typeLabel, typeDetail.category, typeLabel)
    ELSE Built(trim(MechanicalText(typeLabel,
                                   formatMechanicalSize(rest[1], TRUE),
                                   join(filterBoolean(mapFormatMechanicalSpec(Tail(rest))), <<" ">>),
                                   typeDetail)),
               typeDetail.category, typeLabel)

\* buildMechanicalDescription from the lookup of the type on
MechanicalFrom(segments, typeDetail) ==
    IF typeDetail = <<>> THEN Declined
    ELSE MechanicalBuilt(Tail(segments), typeDetail[1],
                         IF typeDetail[1].label # <<>> THEN typeDetail[1].label
                         ELSE formatMechanicalSize(segments[1], FALSE))

\* buildMechanicalDescription from the segments on
MechanicalOf(segments) ==
    IF segments = <<>> THEN Declined
    ELSE MechanicalFrom(segments,
                        IF toLowerCase(segments[1]) \in InheritedKeys THEN <<InheritedDetail>>
                        ELSE Lookup(MECHANICAL_TYPE_DETAILS, toLowerCase(segments[1])))

buildMechanicalDescription(pn) ==
    IF pn = <<>> THEN Declined
    ELSE MechanicalOf(Segments(IF HasFamilyPrefix(pn, <<"m", "e", "c">>) THEN StripFamilyPrefix(pn, <<"m", "e", "c">>) ELSE pn,
                               {"-"}))

----------------------------------------------------------------------------
(* Diode, transistor, inductor and IC description builders *)

\* segments.slice(1).map(normalizeRatingToken).find(Boolean)
RECURSIVE FirstRating(_, _)
FirstRating(segments, k) ==
    IF k > Len(segments) THEN <<>>
    ELSE IF normalizeRatingToken(segments[k]) # <<>> THEN normalizeRatingToken(segments[k])
    ELSE FirstRating(segments, k + 1)

\* parts.join(", ") for parts = [value] or [value, rating]
WithRating(value, rating) == IF rating = <<>> THEN value ELSE value \o <<",", " ">> \o rating

\* The tail of the three builders: null when there is no segment, or (inductor)
\* when the value token is empty
RatedValue(segments, value, category) ==
    IF segments = <<>> \/ value = <<>> THEN Declined
    ELSE Built(WithRating(value, FirstRating(segments, 2)), category, <<>>)

\* segments[0].toUpperCase()
UpperValue(segments) == IF segments = <<>> THEN <<>> ELSE toUpperCase(segments[1])

buildDiodeDescription(pn) ==
    IF ~HasFamilyPrefix(pn, <<"d", "i", "o">>) THEN Declined
    ELSE RatedValue(Segments(StripFamilyPrefix(pn, <<"d", "i", "o">>), {"-", "_"}),
                    UpperValue(Segments(StripFamilyPrefix(pn, <<"d", "i", "o">>), {"-", "_"})), <<"D", "i", "o", "d", "e">>)

buildTransistorDescription(pn) ==
    IF ~HasFamilyPrefix(pn, <<"t", "r", "n">>) THEN Declined
    ELSE RatedValue(Segments(StripFamilyPrefix(pn, <<"t", "r", "n">>), {"-", "_"}),
                    UpperValue(Segments(StripFamilyPrefix(pn, <<"t", "r", "n">>), {"-", "_"})), <<"T", "r", "a", "n", "s", "i", "s", "t", "o", "r">>)

\* formatInductorValue(segments[0])
InductorValue(segments) == IF segments = <<>> THEN <<>> ELSE formatInductorValue(segments[1])

buildInductorDescription(pn) ==
    IF ~HasFamilyPrefix(pn, <<"i", "n", "d">>) THEN Declined
    ELSE RatedValue(Segments(StripFamilyPrefix(pn, <<"i", "n", "d">>), {"-", "_"}),
                    InductorValue(Segments(StripFamilyPrefix(pn, <<"i", "n", "d">>), {"-", "_"})), <<"I", "n", "d", "u", "c", "t", "o", "r">>)

buildICDescription(pn) ==
    IF ~HasFamilyPrefix(pn, <<"i", "c">>) THEN Declined
    ELSE IF trim(StripFamilyPrefix(pn, <<"i", "c">>)) = <<>> THEN Declined
    ELSE Built(toUpperCase(trim(StripFamilyPrefix(pn, <<"i", "c">>))), <<"I", "C">>, <<>>)

----------------------------------------------------------------------------
(* Generic fallback *)

\* formatGeneralToken from normalized = normalizeToken(token)
GeneralText(normalized) ==
    IF normalized = <<>> THEN <<>>
    ELSE IF IsFraction(normalized) THEN normalized \o <<"\"">>
    ELSE IF IsDigitsWithUnit(normalized, { <<"m", "m">>, <<"c", "m">>, <<"i", "n">>, <<"f", "t">> }) THEN toUpperCase(normalized)
    ELSE IF IsDigits(normalized) THEN normalized
    ELSE IF Len(normalized) <= 3 THEN toUpperCase(normalized)
    ELSE Capitalize(normalized)

formatGeneralToken(token) == GeneralText(normalizeToken(token))

mapFormatGeneralToken(xs) == [k \in 1..Len(xs) |-> formatGeneralToken(xs[k])]

\* fallbackDescriptionFromPartNumber from the tokens on
FallbackOf(tokens) ==
    IF tokens = <<>> THEN <<>>
    ELSE trim(join(filterBoolean(mapFormatGeneralToken(
             IF toLowerCase(tokens[1]) \in GENERIC_PREFIX_SKIP THEN Tail(tokens) ELSE tokens)), <<" ">>))

fallbackDescriptionFromPartNumber(pn) == FallbackOf(Segments(pn, {"-", "_"}))

----------------------------------------------------------------------------
(* The page: category select, prefix mappings, rows *)

\* o.text.trim().toLowerCase()
Folded(text) == toLowerCase(trim(text))

\* A faulty setCategory: a label no option has clears the selection
setCategoryOrClear(value, targetText) ==
    LET hits == {k \in DOMAIN options : Folded(options[k].text) = Folded(targetText)}
    IN  IF hits = {} THEN "" ELSE options[Min(hits)].value

\* selectElem.value after setCategory(selectElem, targetText), from its value before
setCategory(value, targetText) ==
    LET hits == {k \in DOMAIN options : Folded(options[k].text) = Folded(targetText)}
    IN  IF hits = {} THEN value ELSE options[Min(hits)].value

categoryOptionExists(targetText) ==
    /\ targetText # <<>>
    /\ Folded(targetText) # <<>>
    /\ \E k \in DOMAIN options : Folded(options[k].text) = Folded(targetText)

\* The array getCategoryPrefixMappings returns; a value that is no array is
\* replaced by [] (Touched is the table after the call).
getCategoryPrefixMappings(m) == IF m.isArray THEN m.entries ELSE <<>>
Touched(m) == [isArray |-> TRUE, entries |-> getCategoryPrefixMappings(m)]

\* bestMatch: null is [found |-> FALSE]
NoMatch == [found |-> FALSE, category |-> <<>>, length |-> 0]

\* A faulty turn of the loop: a prefix of the same length replaces the best match
BetterOrEqual(entry, prefixNormalized, normalizedPN, bestMatch) ==
    IF /\ entry.prefix # <<>>
       /\ entry.category # <<>>
       /\ prefixNormalized # <<>>
       /\ startsWith(normalizedPN, prefixNormalized)
       /\ (~bestMatch.found \/ Len(prefixNormalized) >= bestMatch.length)
    THEN [found |-> TRUE, category |-> entry.category, length |-> Len(prefixNormalized)]
    ELSE bestMatch

\* One turn of the loop of findMappedCategory, for prefixNormalized = entry.prefix.trim().toLowerCase()
Better(entry, prefixNormalized, normalizedPN, bestMatch) ==
    IF /\ entry.prefix # <<>>
       /\ entry.category # <<>>
       /\ prefixNormalized # <<>>
       /\ startsWith(normalizedPN, prefixNormalized)
       /\ (~bestMatch.found \/ Len(prefixNormalized) > bestMatch.length)
    THEN [found |-> TRUE, category |-> entry.category, length |-> Len(prefixNormalized)]
    ELSE bestMatch

\* The loop of findMappedCategory over the entries, bestMatch carried along
RECURSIVE BestMatch(_, _, _)
BestMatch(entries, normalizedPN, bestMatch) ==
    IF entries = <<>> THEN bestMatch
    ELSE BestMatch(Tail(entries), normalizedPN,
                   Better(Head(entries), Folded(Head(entries).prefix), normalizedPN, bestMatch))

findMappedCategory(partNumber, m) ==
    IF partNumber = <<>> \/ Folded(partNumber) = <<>> THEN NoMatch
    ELSE BestMatch(getCategoryPrefixMappings(m), Folded(partNumber), NoMatch)

\* A faulty lookup: the row's own description input only, no document fallback
DescriptionFieldOwn(rs, i) == IF rs[i].hasDesc THEN i ELSE 0

\* row.querySelector("input[name='description']"), else the first one of the
\* document; 0 when the document has none
DescriptionField(rs, i) ==
    IF rs[i].hasDesc THEN i ELSE Least({j \in DOMAIN rs : rs[j].hasDesc})

\* A faulty lookup: the first category select of the document, whatever the row
CategoryFieldFirst(rs, i) == Least({j \in DOMAIN rs : rs[j].hasCat})

\* row.querySelector("select[name='category']"), else the first one of the document
CategoryField(rs, i) ==
    IF rs[i].hasCat THEN i ELSE Least({j \in DOMAIN rs : rs[j].hasCat})

\* The value of a category select nothing was chosen in
NoSelection == ""

\* The row addRow() appends: the row-provisioning capability materialises exactly
\* one more input row, its fields empty.
NewRow == [pn |-> <<>>, desc |-> <<>>, cat |-> NoSelection, hasDesc |-> TRUE, hasCat |-> TRUE]

----------------------------------------------------------------------------
(* Effects.  A handler's run is the sequence of its writes in program      *)
(* order; the page after the run is the page with the writes applied.      *)

DescriptionWrite(j, text) == [kind |-> "description", row |-> j, text |-> text, by |-> "grammar"]
CategoryWrite(j, label, by) == [kind |-> "category", row |-> j, text |-> label, by |-> by]
AddRowCall(j, by) == [kind |-> "addRow", row |-> j, text |-> <<>>, by |-> by]
TokenWrite(j, text) == [kind |-> "token", row |-> j, text |-> text, by |-> "bulk"]
Invocation(j) == [kind |-> "invoke", row |-> j, text |-> <<>>, by |-> "bulk"]

\* A faulty description write: the text is added to what the field holds
ApplyEffectAdding(rs, e) ==
    CASE e.kind = "description" -> [rs EXCEPT ![e.row].desc = @ \o e.text]
      [] e.kind = "category"    -> [rs EXCEPT ![e.row].cat = setCategory(@, e.text)]
      [] e.kind = "addRow"      -> Append(rs, NewRow)
      [] e.kind = "token"       -> [rs EXCEPT ![e.row].pn = e.text]
      [] OTHER                  -> rs

ApplyEffect(rs, e) ==
    CASE e.kind = "description" -> [rs EXCEPT ![e.row].desc = e.text]
      [] e.kind = "category"    -> [rs EXCEPT ![e.row].cat = setCategory(@, e.text)]
      [] e.kind = "addRow"      -> Append(rs, NewRow)
      [] e.kind = "token"       -> [rs EXCEPT ![e.row].pn = e.text]
      [] OTHER                  -> rs

RECURSIVE ApplyEffects(_, _)
ApplyEffects(rs, es) == IF es = <<>> THEN rs ELSE ApplyEffects(ApplyEffect(rs, Head(es)), Tail(es))

----------------------------------------------------------------------------
(* Main entry: auto fill *)

\* /(\d+r\d+u?|\d+u\d+|\d+u|cap[-_]\d+[a-z0-9]+)/ at position p: the first
\* alternative that matches there, given the lengths n1 of the run of digits at
\* p and n2 of the run of digits after the character that follows it
CapTokenFrom(s, p, n1, n2) ==
    IF n1 > 0 /\ p + n1 <= Len(s) /\ s[p + n1] = "r" /\ n2 > 0
    THEN n1 + 1 + n2 + (IF p + n1 + n2 + 1 <= Len(s) /\ s[p + n1 + n2 + 1] = "u" THEN 1 ELSE 0)
    ELSE IF n1 > 0 /\ p + n1 <= Len(s) /\ s[p + n1] = "u" THEN n1 + 1 + n2
    ELSE IF /\ LitAt(s, p, <<"c", "a", "p">>) /\ p + 3 <= Len(s) /\ s[p + 3] \in {"-", "_"}
            /\ p + 5 <= Len(s) /\ s[p + 4] \in Digits /\ s[p + 5] \in LowerAlnum
    THEN 4 + Run(s, p + 4, LowerAlnum)
    ELSE 0

CapTokenAt(s, p) == CapTokenFrom(s, p, Run(s, p, Digits), Run(s, p + Run(s, p, Digits) + 1, Digits))

\* /res[-_]?([0-9a-z\.]+)/i at position p
ResistorAt(s, p) ==
    IF ~LitAt(s, p, <<"r", "e", "s">>) THEN 0
    ELSE IF p + 4 <= Len(s) /\ s[p + 3] \in {"-", "_"} /\ s[p + 4] \in AlnumDot
    THEN 4 + Run(s, p + 4, AlnumDot)
    ELSE IF p + 3 <= Len(s) /\ s[p + 3] \in AlnumDot THEN 3 + Run(s, p + 3, AlnumDot)
    ELSE 0

\* resistorMatch[1], from resistorMatch[0]
ValueToken(matched) == IF matched[4] \in {"-", "_"} THEN From(matched, 5) ELSE From(matched, 4)

\* /esp32/i at position p
Esp32At(s, p) == IF LitAt(s, p, <<"e", "s", "p", "3", "2">>) THEN 5 ELSE 0

\* A description that is applied when it is not empty
BuiltIf(description, category) ==
    IF description = <<>> THEN Declined ELSE Built(description, category, <<>>)

\* categoryToApply
mechanicalRules(mechanicalInfo) ==
    [mechanicalInfo EXCEPT !.category =
        IF @ = <<>> /\ mechanicalInfo.typeLabel # <<>> /\ categoryOptionExists(mechanicalInfo.typeLabel)
        THEN mechanicalInfo.typeLabel
        ELSE @]

\* A faulty finalDesc: the voltage appended after a space
finalDescSpaced(uf, volt) ==
    IF volt = <<>> THEN uf
    ELSE IF uf # <<>> THEN uf \o <<" ">> \o volt
    ELSE volt

\* finalDesc, from uf ? uf.toUpperCase() : "" on
finalDesc(uf, volt) ==
    IF volt = <<>> THEN uf
    ELSE IF uf # <<>> THEN uf \o <<",", " ">> \o volt
    ELSE volt

\* Faulty capacitor rules: declined whenever parseCapacitance gives nothing
CapacitorFromStrict(capToken, lower) ==
    IF capToken = <<>> \/ parseCapacitance(capToken) = <<>> THEN Declined
    ELSE BuiltIf(finalDesc(toUpperCase(parseCapacitance(capToken)), extractVoltage(lower)), <<"C", "a", "p", "a", "c", "i", "t", "o", "r">>)

\* The capacitor rules from capToken[1] on ("" when there was no match)
CapacitorFrom(capToken, lower) ==
    IF capToken = <<>> THEN Declined
    ELSE BuiltIf(finalDesc(toUpperCase(parseCapacitance(capToken)), extractVoltage(lower)), <<"C", "a", "p", "a", "c", "i", "t", "o", "r">>)

capacitorRules(lower) == CapacitorFrom(MatchOf(lower, CapTokenAt), lower)

\* A faulty join: the tolerance pushed before the wattage
ResistorTextToleranceFirst(formattedValue, watt, tolerance) ==
    join(<<formattedValue>>
         \o (IF tolerance # <<>> THEN <<tolerance>> ELSE <<>>)
         \o (IF watt # <<>> THEN <<watt>> ELSE <<>>), <<",", " ">>)

\* parts.join(", ")
ResistorText(formattedValue, watt, tolerance) ==
    join(<<formattedValue>>
         \o (IF watt # <<>> THEN <<watt>> ELSE <<>>)
         \o (IF tolerance # <<>> THEN <<tolerance>> ELSE <<>>), <<",", " ">>)

\* The resistor rules from resistorMatch[0] on ("" when there was no match)
ResistorFrom(matched, pn) ==
    IF matched = <<>> THEN Declined
    ELSE Built(ResistorText(formatResistor(ValueToken(matched)),
                            normalizeWattage(extractWattage(pn)),
                            extractTolerance(pn)),
               <<"R", "e", "s", "i", "s", "t", "o", "r">>, <<>>)

\* Faulty resistor rules: without "res", the last segment is taken as the value
resistorRulesLoose(pn) ==
    IF MatchOf(pn, ResistorAt) # <<>> THEN ResistorFrom(MatchOf(pn, ResistorAt), pn)
    ELSE IF Segments(pn, {"-", "_"}) = <<>> THEN Declined
    ELSE Built(formatResistor(Segments(pn, {"-", "_"})[Len(Segments(pn, {"-", "_"}))]), <<"R", "e", "s", "i", "s", "t", "o", "r">>, <<>>)

resistorRules(pn) == ResistorFrom(MatchOf(pn, ResistorAt), pn)

\* Faulty ESP32 rules: esp32 looked for in lower case only
esp32RulesLowerOnly(pn) ==
    IF \E p \in 1..Len(pn) : p + 4 <= Len(pn) /\ SubSeq(pn, p, p + 4) = <<"e", "s", "p", "3", "2">>
    THEN Built(<<"E", "S", "P", "3", "2", " ", "s", "e", "r", "i", "e", "s", " ", "m", "i", "c", "r", "o", "c", "o", "n", "t", "r", "o", "l", "l", "e", "r">>, <<"M", "C", "U">>, <<>>)
    ELSE Declined

esp32Rules(pn) ==
    IF FirstPos(pn, Esp32At) > 0 THEN Built(<<"E", "S", "P", "3", "2", " ", "s", "e", "r", "i", "e", "s", " ", "m", "i", "c", "r", "o", "c", "o", "n", "t", "r", "o", "l", "l", "e", "r">>, <<"M", "C", "U">>, <<>>) ELSE Declined

\* A faulty fallback: the description field is not looked at
fallbackRulesAlways(pn, descValue) == BuiltIf(fallbackDescriptionFromPartNumber(pn), <<>>)

\* The generic fallback, with the current value of the description field
fallbackRules(pn, descValue) ==
    IF descValue # <<>> THEN Declined ELSE BuiltIf(fallbackDescriptionFromPartNumber(pn), <<>>)

\* What the cascade applies: the grammar that returned, and the description and
\* category it hands to applyAutofill (<<>> for none).  "none" is the path that
\* reaches the end of the function.
Applied(grammar, description, category) ==
    [grammar |-> grammar, description |-> description, category |-> category]

\* if (info) { applyAutofill(info.description, info.category); return; } and what follows it
OrElse(grammar, info, rest) ==
    IF info.matched THEN Applied(grammar, info.description, info.category) ELSE rest

\* A faulty cascade: the capacitor rules tried before the mechanical ones
CascadeCapacitorFirst(pn, descValue) ==
    OrElse("capacitor", capacitorRules(toLowerCase(pn)),
    OrElse("mechanical", mechanicalRules(buildMechanicalDescription(pn)),
    OrElse("resistor", resistorRules(pn),
    OrElse("diode", buildDiodeDescription(pn),
    OrElse("transistor", buildTransistorDescription(pn),
    OrElse("inductor", buildInductorDescription(pn),
    OrElse("ic", buildICDescription(pn),
    OrElse("esp32", esp32Rules(pn),
    OrElse("fallback", fallbackRules(pn, descValue),
    Applied("none", <<>>, <<>>))))))))))

\* The cascade of autoFillFromPartNumber for the trimmed token pn, with the
\* current value of the description field
Cascade(pn, descValue) ==
    OrElse("mechanical", mechanicalRules(buildMechanicalDescription(pn)),
    OrElse("capacitor", capacitorRules(toLowerCase(pn)),
    OrElse("resistor", resistorRules(pn),
    OrElse("diode", buildDiodeDescription(pn),
    OrElse("transistor", buildTransistorDescription(pn),
    OrElse("inductor", buildInductorDescription(pn),
    OrElse("ic", buildICDescription(pn),
    OrElse("esp32", esp32Rules(pn),
    OrElse("fallback", fallbackRules(pn, descValue),
    Applied("none", <<>>, <<>>))))))))))

\* A faulty applyAutofill: the lock is not consulted
applyAutofillUnlocked(d, c, description, category, mappedCategory) ==
    (IF description # <<>> THEN <<DescriptionWrite(d, description)>> ELSE <<>>)
    \o (IF category # <<>> THEN <<CategoryWrite(c, category, "grammar")>> ELSE <<>>)

\* A faulty applyAutofill: the mapping locks only when its category is an option
applyAutofillLockIfOption(d, c, description, category, mappedCategory) ==
    (IF description # <<>> THEN <<DescriptionWrite(d, description)>> ELSE <<>>)
    \o (IF /\ category # <<>>
           /\ \/ ~mappedCategory.found
              \/ ~categoryOptionExists(mappedCategory.category)
              \/ (Folded(mappedCategory.category) # <<>> /\ Folded(category) = Folded(mappedCategory.category))
        THEN <<CategoryWrite(c, category, "grammar")>>
        ELSE <<>>)

\* applyAutofill(description, category) with the lock state the mapping left:
\* the writes it performs on the description field d and the category field c
applyAutofill(d, c, description, category, mappedCategory) ==
    (IF description # <<>> THEN <<DescriptionWrite(d, description)>> ELSE <<>>)
    \o (IF /\ category # <<>>
           /\ \/ ~mappedCategory.found
              \/ (Folded(mappedCategory.category) # <<>> /\ Folded(category) = Folded(mappedCategory.category))
        THEN <<CategoryWrite(c, category, "grammar")>>
        ELSE <<>>)

\* The result of a handler: the page after it, and what it did
Outcome(rs, m, grammar, pn, mapped, effects, threw) ==
    [rows |-> rs, mappings |-> m, grammar |-> grammar, pn |-> pn,
     mapped |-> mapped, effects |-> effects, threw |-> threw]

\* The result of the writes of autoFillFromPartNumber on the page rs
Performed(rs, m, grammar, pn, mapped, effects) ==
    Outcome(ApplyEffects(rs, effects), m, grammar, pn, mapped, effects, FALSE)

\* A faulty autoFillFromPartNumber: the mapped category is set only when a grammar applied
autoFillFieldsLate(rs, m, i, pn, d, c, mappedCategory, applied) ==
    Performed(rs, Touched(m), applied.grammar, pn, mappedCategory,
            (IF mappedCategory.found /\ applied.grammar # "none"
             THEN <<CategoryWrite(c, mappedCategory.category, "mapping")>> ELSE <<>>)
            \o applyAutofill(d, c, applied.description, applied.category, mappedCategory)
            \o (IF applied.grammar = "none" /\ i = Len(rs) /\ addRowDefined
                THEN <<AddRowCall(Len(rs) + 1, "autoFill")>>
                ELSE <<>>))

\* autoFillFromPartNumber from the mapping lookup on, for the fields d and c
autoFillFields(rs, m, i, pn, d, c, mappedCategory, applied) ==
    Performed(rs, Touched(m), applied.grammar, pn, mappedCategory,
            (IF mappedCategory.found THEN <<CategoryWrite(c, mappedCategory.category, "mapping")>> ELSE <<>>)
            \o applyAutofill(d, c, applied.description, applied.category, mappedCategory)
            \o (IF applied.grammar = "none" /\ i = Len(rs) /\ addRowDefined
                THEN <<AddRowCall(Len(rs) + 1, "autoFill")>>
                ELSE <<>>))

\* autoFillFromPartNumber(inputElem) for the part_number input of row i
autoFillFromPartNumber(rs, m, i) ==
    LET pn == trim(rs[i].pn)
        d == DescriptionField(rs, i)
        c == CategoryField(rs, i)
    IN  IF pn = <<>> THEN Outcome(rs, m, "empty", pn, NoMatch, <<>>, FALSE)
        ELSE IF d = 0 \/ c = 0 THEN Outcome(rs, m, "abort", pn, NoMatch, <<>>, FALSE)
        ELSE autoFillFields(rs, m, i, pn, d, c, findMappedCategory(pn, m), Cascade(pn, rs[d].desc))

----------------------------------------------------------------------------
(* Bulk paste support *)

\* One piece of raw.split(/\r?\n/), from the piece of the split at \n
DropFinalCR(seg, isLast) ==
    IF ~isLast /\ seg # <<>> /\ seg[Len(seg)] = "\r" THEN SubSeq(seg, 1, Len(seg) - 1) ELSE seg

mapDropFinalCR(segs) == [k \in 1..Len(segs) |-> DropFinalCR(segs[k], k = Len(segs))]

\* raw.split(/\r?\n/)
splitLines(raw) == mapDropFinalCR(split(raw, {"\n"}))

\* The lines fillBulkPaste iterates over
bulkLinesOf(raw) == filterBoolean(mapTrim(splitLines(raw)))

\* The progress of fillBulkPaste: the page and the effects so far
Progress(rs, m, effects) == [rows |-> rs, mappings |-> m, effects |-> effects]

\* After one more call autoFillFromPartNumber(field) that gave the outcome r
Invoked(st, index, r) ==
    Progress(r.rows, r.mappings, st.effects \o <<Invocation(index)>> \o r.effects)

\* The calls of autoFillFromPartNumber(field) for one line: the one of the
\* listener of the dispatched input event, if there is one, and the direct one
RECURSIVE Invocations(_, _, _)
Invocations(st, index, times) ==
    IF times = 0 THEN st
    ELSE Invocations(Invoked(st, index, autoFillFromPartNumber(st.rows, st.mappings, index)),
                     index, times - 1)

\* A faulty assignment: the line goes to the last part_number field
AssignedToLast(parts, st, index, val, grow) ==
    Progress([parts EXCEPT ![Len(parts)].pn = val], st.mappings,
             st.effects
             \o (IF grow THEN <<AddRowCall(Len(st.rows) + 1, "bulk")>> ELSE <<>>)
             \o <<TokenWrite(Len(parts), val)>>)

\* The body of the forEach up to field.value = val: addRow() when the rows are
\* too few, and the assignment
Assigned(parts, st, index, val, grow) ==
    Progress([parts EXCEPT ![index].pn = val], st.mappings,
             st.effects
             \o (IF grow THEN <<AddRowCall(Len(st.rows) + 1, "bulk")>> ELSE <<>>)
             \o <<TokenWrite(index, val)>>)

\* The forEach of fillBulkPaste from the line at position index (1-based) on.
\* listener: whether the dispatched input event reaches a listener that calls
\* autoFillFromPartNumber.  When parts[index] is undefined, the assignment to
\* field.value throws and ends the handler.
RECURSIVE BulkLines(_, _, _, _)
BulkLines(st, lines, index, listener) ==
    IF index > Len(lines) THEN Outcome(st.rows, st.mappings, "", <<>>, NoMatch, st.effects, FALSE)
    ELSE IF index > Len(st.rows) /\ ~addRowDefined
    THEN Outcome(st.rows, st.mappings, "", <<>>, NoMatch, st.effects, TRUE)
    ELSE BulkLines(Invocations(Assigned(IF index > Len(st.rows) THEN Append(st.rows, NewRow) ELSE st.rows,
                                        st, index, lines[index], index > Len(st.rows)),
                               index, IF listener THEN 2 ELSE 1),
                   lines, index + 1, listener)

fillBulkPaste(rs, m, raw, listener) ==
    IF raw = <<>> THEN Outcome(rs, m, "", <<>>, NoMatch, <<>>, FALSE)
    ELSE BulkLines(Progress(rs, m, <<>>), bulkLinesOf(raw), 1, listener)

----------------------------------------------------------------------------
(* The bounded inputs *)

\* Handler invocations in one behaviour
MaxCalls == 3

Row(pn, desc, hasDesc, hasCat) ==
    [pn |-> pn, desc |-> desc, cat |-> NoSelection, hasDesc |-> hasDesc, hasCat |-> hasCat]

Option(text, value) == [text |-> text, value |-> value]
Mapping(prefix, category) == [prefix |-> prefix, category |-> category]

\* A category select with one option per family, and one with few options,
\* padded and differently cased texts, and two options of the same folded text
FullOptions ==
    << Option(<<"R", "e", "s", "i", "s", "t", "o", "r">>, "Resistor"), Option(<<"C", "a", "p", "a", "c", "i", "t", "o", "r">>, "Capacitor"),
       Option(<<"M", "e", "c", "h", "a", "n", "i", "c", "a", "l">>, "Mechanical"), Option(<<"D", "i", "o", "d", "e">>, "Diode"),
       Option(<<"T", "r", "a", "n", "s", "i", "s", "t", "o", "r">>, "Transistor"), Option(<<"I", "n", "d", "u", "c", "t", "o", "r">>, "Inductor"),
       Option(<<"I", "C">>, "IC"), Option(<<"M", "C", "U">>, "MCU"),
       Option(<<"S", "e", "n", "s", "o", "r">>, "Sensor"), Option(<<"S", "p", "e", "c", "i", "a", "l">>, "Special") >>
SparseOptions ==
    << Option(<<" ", "r", "e", "s", "i", "s", "t", "o", "r", " ">>, "r1"), Option(<<"R", "E", "S", "I", "S", "T", "O", "R">>, "r2"), Option(<<"C", "a", "p", "a", "c", "i", "t", "o", "r">>, "c1"),
       Option(<<"s", "e", "n", "s", "o", "r">>, "s1"), Option(<<"C", "o", "n", "s", "t", "r", "u", "c", "t", "o", "r">>, "k1") >>
OptionLists == {FullOptions, SparseOptions}

\* window.categoryPrefixMappings: not an array, empty, the two orders of the
\* RES / RES4 pair, and a table of locks (a label no option has, a label that
\* confirms the grammar's, labels that contradict it, two entries of the same
\* folded prefix, entries with an empty prefix or category, a blank label)
NoTable == [isArray |-> FALSE, entries |-> <<>>]
Table(entries) == [isArray |-> TRUE, entries |-> entries]
ResThenRes4 == Table(<< Mapping(<<"R", "E", "S">>, <<"R", "e", "s", "i", "s", "t", "o", "r", "-", "C", "u", "s", "t", "o", "m">>), Mapping(<<"R", "E", "S", "4">>, <<"S", "p", "e", "c", "i", "a", "l">>) >>)
Res4ThenRes == Table(<< Mapping(<<"R", "E", "S", "4">>, <<"S", "p", "e", "c", "i", "a", "l">>), Mapping(<<"R", "E", "S">>, <<"R", "e", "s", "i", "s", "t", "o", "r", "-", "C", "u", "s", "t", "o", "m">>) >>)
LockTable ==
    Table(<< Mapping(<<"X", "1">>, <<"S", "e", "n", "s", "o", "r">>),
             Mapping(<<"r", "e", "s">>, <<"U", "n", "k", "n", "o", "w", "n", "-", "L", "a", "b", "e", "l">>),
             Mapping(<<" ", "C", "a", "p">>, <<"c", "a", "p", "a", "c", "i", "t", "o", "r", " ">>),
             Mapping(<<"m", "e", "c">>, <<"S", "e", "n", "s", "o", "r">>),
             Mapping(<<"d", "i", "o">>, <<"S", "e", "n", "s", "o", "r">>),
             Mapping(<<"D", "I", "O", " ">>, <<"D", "i", "o", "d", "e">>),
             Mapping(<<>>, <<"I", "C">>),
             Mapping(<<" ", " ">>, <<"I", "C">>),
             Mapping(<<"W", "I", "D">>, <<>>),
             Mapping(<<"i", "c", "-">>, <<" ", " ">>),
             Mapping(<<"e", "s", "p">>, <<"S", "p", "e", "c", "i", "a", "l">>) >>)
MappingTables == {NoTable, Table(<<>>), ResThenRes4, Res4ThenRes, LockTable}

\* The part numbers typed into a row
Tokens ==
    { <<"R", "E", "S", "-", "4", "K", "7", "-", "5", "%", "-", "0", ".", "2", "5", "W">>, <<"R", "E", "S", "-", "4", "7", "0", "R">>, <<"R", "E", "S", "4", "7", "0", "R">>, <<" ", "r", "e", "s", "-", "4", "7", "0", "r", " ">>, <<"R", "E", "S", "-", "4", "7", "0", "0">>, <<"R", "E", "S", "-", "4", "7", "0">>,
      <<"R", "E", "S", "-", "4", "R", "7">>, <<"R", "E", "S", "-", "1", "0", "K", "-", "2", "W">>, <<"R", "E", "S">>, <<"P", "R", "E", "S", "-", "5">>,
      <<"C", "A", "P", "-", "4", "u", "7", "-", "1", "6", "V">>, <<"C", "A", "P", "-", "1", "0", "0", "n", "-", "5", "0", "V">>, <<"C", "A", "P", "-", "1", "0", "0", "n">>, <<"4", "7", "0", "u", "-", "2", "5", "V">>,
      <<"M", "E", "C", "-", "W", "S", "H", "-", "M", "3", "-", "5", "m", "m">>, <<"M", "E", "C", "-", "W", "S", "H", "-", "4", "u", "7">>, <<"M", "E", "C", "_", "H", "S", "T", "-", "3", "_", "8", "i", "n", "-", "2", "-", "R", "E", "D">>, <<"M", "E", "C", "-", "4", "u", "7">>, <<"m", "e", "c", "_", "n", "u", "t", "-", "2", "r", "2">>, <<"W", "S", "H", "-", "M", "3">>, <<"M", "E", "C">>, <<"c", "o", "n", "s", "t", "r", "u", "c", "t", "o", "r">>,
      <<"D", "I", "O", "-", "1", "N", "4", "0", "0", "7", "-", "1", "A">>, <<"T", "R", "N", "-", "B", "C", "5", "4", "7", "-", "4", "5", "V">>, <<"I", "N", "D", "-", "4", ".", "7", "-", "2", "A">>, <<"I", "N", "D", "-", "1", "0", "u", "H", "-", "2", "A">>, <<"I", "C", "-", "N", "E", "5", "5", "5">>,
      <<"E", "S", "P", "3", "2", "-", "W", "R", "O", "O", "M">>, <<"E", "S", "P", "3", "2", "-", "W", "R", "O", "O", "M", "-", "3", "2", "U">>, <<"i", "c", "-", "e", "s", "p", "3", "2">>,
      <<"W", "I", "D", "G", "E", "T", "-", "4", "2", "-", "B", "L", "U", "E">>, <<"X", "1", "-", "1", "0", "0">>, <<"P", "C", "B", "-", "1", "0", "m", "m", "-", "3", "/", "4">>, <<" ", " ", " ">> }

\* What a description field holds before the engine runs
Descriptions == { <<>>, <<"t", "y", "p", "e", "d", " ", "b", "y", " ", "h", "a", "n", "d">> }

\* The pages of the whole-page specification: no row yet, blank rows, rows with
\* a typed part number, rows that lack a description input or a category select
InitialRows ==
    { <<>>,
      << Row(<<>>, <<>>, TRUE, TRUE) >>,
      << Row(<<"R", "E", "S", "-", "4", "7", "0", "R">>, <<>>, TRUE, TRUE), Row(<<"W", "I", "D", "G", "E", "T", "-", "4", "2", "-", "B", "L", "U", "E">>, <<>>, TRUE, TRUE) >>,
      << Row(<<"M", "E", "C">>, <<"t", "y", "p", "e", "d", " ", "b", "y", " ", "h", "a", "n", "d">>, TRUE, TRUE) >>,
      << Row(<<"W", "I", "D", "G", "E", "T", "-", "4", "2", "-", "B", "L", "U", "E">>, <<>>, TRUE, TRUE), Row(<<"R", "E", "S", "-", "4", "7", "0", "R">>, <<>>, FALSE, TRUE) >>,
      << Row(<<"R", "E", "S", "-", "4", "7", "0", "R">>, <<>>, TRUE, FALSE), Row(<<"M", "E", "C">>, <<>>, TRUE, TRUE) >>,
      << Row(<<"R", "E", "S", "-", "4", "7", "0", "R">>, <<>>, FALSE, TRUE) >>,
      << Row(<<"W", "I", "D", "G", "E", "T", "-", "4", "2", "-", "B", "L", "U", "E">>, <<>>, TRUE, FALSE), Row(<<>>, <<>>, TRUE, FALSE) >> }

\* The texts pasted into the bulk textarea
BulkTexts ==
    { <<>>,
      <<" ", "\n", "\r", "\n">>,
      <<"R", "E", "S", "-", "4", "7", "0", "R", "\r", "\n", "\n", " ", " ", "W", "I", "D", "G", "E", "T", "-", "4", "2", "-", "B", "L", "U", "E", " ", "\n", "M", "E", "C">>,
      <<"M", "E", "C", "\n", "C", "A", "P", "-", "4", "u", "7", "-", "1", "6", "V">> }

----------------------------------------------------------------------------
(* The state machine *)

\* `last` before any handler ran
Idle ==
    [op |-> "init", row |-> 0, pn |-> <<>>, grammar |-> "", mapped |-> NoMatch,
     effects |-> <<>>, before |-> <<>>, lines |-> <<>>, threw |-> FALSE]

Init ==
    /\ rows \in InitialRows
    /\ options \in OptionLists
    /\ mappings \in {NoTable, LockTable}
    /\ addRowDefined \in BOOLEAN
    /\ inputListener \in BOOLEAN
    /\ last = Idle
    /\ calls = 0

\* One row holding a typed part number, on a page whose addRow is defined
InitPipeline ==
    /\ \E pn \in Tokens, desc \in Descriptions : rows = << Row(pn, desc, TRUE, TRUE) >>
    /\ options \in OptionLists
    /\ mappings \in MappingTables
    /\ addRowDefined = TRUE
    /\ inputListener = TRUE
    /\ last = Idle
    /\ calls = 0

\* The handler op returns with the outcome r: the page is the page it left
Returns(op, i, lines, r) ==
    /\ rows' = r.rows
    /\ mappings' = r.mappings
    /\ last' = [op |-> op, row |-> i, pn |-> r.pn, grammar |-> r.grammar, mapped |-> r.mapped,
                effects |-> r.effects, before |-> rows, lines |-> lines, threw |-> r.threw]
    /\ calls' = calls + 1
    /\ UNCHANGED <<options, addRowDefined, inputListener>>

\* The input event of the part_number field of row i: autoFillFromPartNumber(this)
AutoFill(i) ==
    /\ calls < MaxCalls
    /\ Returns("autoFill", i, <<>>, autoFillFromPartNumber(rows, mappings, i))

\* fillBulkPaste(textareaId) with the textarea holding raw
BulkPaste(raw) ==
    /\ calls < MaxCalls
    /\ Returns("bulkPaste", 0, IF raw = <<>> THEN <<>> ELSE bulkLinesOf(raw),
               fillBulkPaste(rows, mappings, raw, inputListener))

Next ==
    \/ \E i \in DOMAIN rows : AutoFill(i)
    \/ \E raw \in BulkTexts : BulkPaste(raw)

Spec == Init /\ [][Next]_vars

NextPipeline == \E i \in DOMAIN rows : AutoFill(i)

SpecPipeline == InitPipeline /\ [][NextPipeline]_vars


----------------------------------------------------------------------------
(* Properties.  `last` records the handler that ran last: the page before  *)
(* it (last.before), the trimmed token (last.pn), the grammar that         *)
(* returned (last.grammar), the mapping lookup (last.mapped) and the       *)
(* writes in program order (last.effects).                                 *)

\* autoFillFromPartNumber ran last, on a non-empty token, with both destinations found
Ran == last.op = "autoFill" /\ last.grammar \notin {"empty", "abort"}

\* The positions of the effects of one kind in a sequence of effects
Positions(es, kind) == {k \in DOMAIN es : es[k].kind = kind}

\* The description and category writes of a sequence of effects, in order
IsWrite(e) == e.kind \in {"description", "category"}
Writes(es) == SelectSeq(es, IsWrite)

\* The fields the last autoFillFromPartNumber wrote to
LastDesc == DescriptionField(last.before, last.row)
LastCat == CategoryField(last.before, last.row)

\* The options whose trimmed lower-cased text is the trimmed lower-cased label
Matching(label) == {k \in DOMAIN options : Folded(options[k].text) = Folded(label)}

\* The category writes of the grammar (not of the mapping) in the last run
GrammarCategoryWrites ==
    {k \in DOMAIN last.effects : last.effects[k].kind = "category" /\ last.effects[k].by = "grammar"}

\* C1 (as stated): when autoFillFromPartNumber runs twice in a row on the same
\* row, with the same token and the same mapping entries, the second run
\* performs the same description write and the same category write as the first.
C1_IdempotentWrites ==
    [][(/\ last.op = "autoFill"
        /\ last'.op = "autoFill"
        /\ last'.row = last.row
        /\ last'.pn = last.pn
        /\ getCategoryPrefixMappings(mappings') = getCategoryPrefixMappings(mappings))
       => Writes(last'.effects) = Writes(last.effects)]_vars

\* C2 (as stated): whenever autoFillFromPartNumber runs on a non-empty token of
\* the last part_number field, with both destinations found and addRow defined,
\* addRow is called during that run, whichever grammar matched or none.
C2_AddRowAfterEveryInvocation ==
    (Ran /\ last.row = Len(last.before) /\ addRowDefined)
        => Positions(last.effects, "addRow") # {}

\* fillBulkPaste ran last, on a page whose addRow is defined
BulkRan == last.op = "bulkPaste" /\ addRowDefined

\* The number of rows when the effect at position a of the last run happens
RowsAt(a) == Len(last.before) + Cardinality({b \in 1..(a - 1) : last.effects[b].kind = "addRow"})

\* The position of the next assignment of a line after position a, or the end
NextAssignment(a) ==
    Min({b \in Positions(last.effects, "token") : b > a} \cup {Len(last.effects) + 1})

\* C3: fillBulkPaste, with addRow defined, processes the lines in source order:
\* the i-th assignment writes line i to row i, which exists by then (addRow is
\* called just before when, and only when, the rows are too few); the pipeline
\* of row i is invoked right after the assignment and all of its effects,
\* addRow included, come before the next line is touched; afterwards row i holds
\* line i for every line and there are at least as many rows as lines.
C3_BulkOrdering ==
    BulkRan =>
        LET es == last.effects
            tw == Positions(es, "token")
        IN  /\ ~last.threw
            /\ Cardinality(tw) = Len(last.lines)
            /\ \A a \in tw :
                LET i == Cardinality({b \in tw : b <= a})
                IN  /\ es[a].row = i
                    /\ es[a].text = last.lines[i]
                    /\ RowsAt(a) >= i
                    /\ (a > 1 /\ es[a - 1].kind = "addRow" /\ es[a - 1].by = "bulk") => RowsAt(a - 1) < i
                    /\ a + 1 <= Len(es) /\ es[a + 1] = Invocation(i)
                    /\ \A b \in (a + 1)..(NextAssignment(a) - 1) :
                        /\ es[b].kind = "invoke" => es[b].row = i
                        /\ es[b].by = "bulk" /\ es[b].kind = "addRow" => b + 1 = NextAssignment(a) /\ b + 1 <= Len(es)
            /\ Len(rows) >= Len(last.lines)
            /\ \A i \in DOMAIN last.lines : rows[i].pn = last.lines[i]

\* C3 happens: a bulk paste of three lines on which both fillBulkPaste and the
\* pipeline of a line called addRow
C3_Witness ==
    /\ BulkRan
    /\ Len(last.lines) = 3
    /\ \E a, b \in Positions(last.effects, "addRow") :
        last.effects[a].by = "bulk" /\ last.effects[b].by = "autoFill" /\ a < b

\* C4: when a prefix mapping matches the token, the first write of the run is
\* the mapped category, before any write of a grammar; a grammar's category is
\* written afterwards only if it equals the mapped category once both are
\* trimmed and lower-cased; so, when the mapped category is an option, the
\* category field holds that option after the run; and the description of the
\* grammar that matched is written all the same.
C4_CategoryLock ==
    (Ran /\ last.mapped.found) =>
        /\ last.effects # <<>>
        /\ last.effects[1] = CategoryWrite(LastCat, last.mapped.category, "mapping")
        /\ \A k \in 2..Len(last.effects) :
            last.effects[k].kind = "category"
                => /\ last.effects[k].by = "grammar"
                   /\ Folded(last.effects[k].text) = Folded(last.mapped.category)
        /\ Matching(last.mapped.category) # {}
            => rows[LastCat].cat = options[Min(Matching(last.mapped.category))].value
        /\ Cascade(last.pn, last.before[LastDesc].desc).description # <<>>
            => rows[LastDesc].desc = Cascade(last.pn, last.before[LastDesc].desc).description

\* C4 happens: DIO-1N4007-1A under the mapping dio -> Sensor keeps Sensor, the
\* Diode grammar's category is suppressed and its description written
C4_Witness ==
    /\ Ran
    /\ last.mapped.found
    /\ last.grammar = "diode"
    /\ rows[1].cat = "Sensor"
    /\ rows[1].desc = <<"1", "N", "4", "0", "0", "7", ",", " ", "1", "A">>
    /\ GrammarCategoryWrites = {}

\* The entries findMappedCategory may choose for the trimmed token pn
Eligible(entries, pn) ==
    {k \in DOMAIN entries :
        /\ entries[k].prefix # <<>>
        /\ entries[k].category # <<>>
        /\ Folded(entries[k].prefix) # <<>>
        /\ startsWith(Folded(pn), Folded(entries[k].prefix))}

\* Those of the longest trimmed lower-cased prefix among the entries E
Longest(entries, E) ==
    {k \in E : \A j \in E : Len(Folded(entries[j].prefix)) <= Len(Folded(entries[k].prefix))}

\* C5: findMappedCategory returns the category of the first-declared entry among
\* those of the longest trimmed lower-cased prefix that the trimmed lower-cased
\* token starts with, entries of an empty prefix or category left out, and no
\* category when there is none (or no table); RES470R under RES -> Resistor-Custom
\* and RES4 -> Special gives Special in either order.
C5_LongestPrefixWins ==
    Ran =>
        LET entries == getCategoryPrefixMappings(mappings)
            E == Eligible(entries, last.pn)
        IN  /\ E = {} => ~last.mapped.found
            /\ E # {} => /\ last.mapped.found
                         /\ last.mapped.category = entries[Min(Longest(entries, E))].category
            /\ (last.pn = <<"R", "E", "S", "4", "7", "0", "R">> /\ mappings \in {ResThenRes4, Res4ThenRes})
                => last.mapped.category = <<"S", "p", "e", "c", "i", "a", "l">>

\* C5 happens: RES470R with the shorter prefix declared first
C5_Witness ==
    /\ Ran
    /\ last.pn = <<"R", "E", "S", "4", "7", "0", "R">>
    /\ mappings = ResThenRes4
    /\ last.mapped.found
    /\ last.mapped.category = <<"S", "p", "e", "c", "i", "a", "l">>

\* The token starts with MEC- or MEC_, in either case
MecPrefixed(pn) == HasFamilyPrefix(pn, <<"m", "e", "c">>)

\* The token holds <digits>r<digits>, <digits>u<digits> or <digits>u
CapShaped(pn) ==
    \E p \in 1..Len(pn) :
        \E n \in {Run(pn, p, Digits)} :
            /\ n > 0
            /\ p + n <= Len(pn)
            /\ \/ toLowerCase(pn)[p + n] = "u"
               \/ toLowerCase(pn)[p + n] = "r" /\ p + n + 1 <= Len(pn) /\ pn[p + n + 1] \in Digits

\* The first segment after the MEC prefix is a key of MECHANICAL_TYPE_DETAILS
KnownType(pn) ==
    \E segments \in {Segments(StripFamilyPrefix(pn, <<"m", "e", "c">>), {"-"})} :
        /\ segments # <<>>
        /\ Lookup(MECHANICAL_TYPE_DETAILS, toLowerCase(segments[1])) # <<>>

\* The last run wrote what the Mechanical grammar gives for the token
MechanicalWritten ==
    /\ last.grammar = "mechanical"
    /\ rows[LastDesc].desc = buildMechanicalDescription(last.pn).description
    /\ \A k \in GrammarCategoryWrites : last.effects[k].text = <<"M", "e", "c", "h", "a", "n", "i", "c", "a", "l">>

CategoryWritesOn(j) ==
    {k \in Positions(last.effects, "category") :
        last.effects[k].row = j /\ Matching(last.effects[k].text) # {}}

\* The category value of row j before the last handler ran
CategoryBefore(j) == IF j <= Len(last.before) THEN last.before[j].cat ELSE NoSelection

\* C8: a category write sets the field to the value of the first option whose
\* trimmed lower-cased text equals the trimmed lower-cased label and changes
\* nothing when there is none; so every row's category value is the one it
\* started with or the value of an option, and the options stay what they were.
C8_CategoryStaysValid ==
    /\ options \in OptionLists
    /\ \A j \in DOMAIN rows :
        /\ rows[j].cat \in {NoSelection} \cup {options[k].value : k \in DOMAIN options}
        /\ rows[j].cat =
            IF CategoryWritesOn(j) = {} THEN CategoryBefore(j)
            ELSE options[Min(Matching(last.effects[Max(CategoryWritesOn(j))].text))].value

\* C8 happens: a row whose category was set earlier saw a write of a label no
\* option has, and kept its value
C8_Witness ==
    \E j \in DOMAIN rows :
        /\ rows[j].cat # NoSelection
        /\ \E k \in Positions(last.effects, "category") :
            last.effects[k].row = j /\ Matching(last.effects[k].text) = {}

\* C9: when none of the eight grammars matches, the fallback writes its
\* description only if the description field is empty at that moment, and no
\* category; a non-empty description stays; WIDGET-42-BLUE with an empty
\* description and no mapping gives Widget 42 Blue and the category unchanged.
C9_GenericFallback ==
    (Ran /\ last.grammar \in {"fallback", "none"}) =>
        /\ GrammarCategoryWrites = {}
        /\ ~last.mapped.found => rows[LastCat].cat = last.before[LastCat].cat
        /\ last.grammar = "fallback" =>
            /\ last.before[LastDesc].desc = <<>>
            /\ Cardinality(Positions(last.effects, "description")) = 1
            /\ rows[LastDesc].desc = fallbackDescriptionFromPartNumber(last.pn)
        /\ last.before[LastDesc].desc # <<>> =>
            /\ Positions(last.effects, "description") = {}
            /\ rows[LastDesc].desc = last.before[LastDesc].desc
        /\ (last.pn = <<"W", "I", "D", "G", "E", "T", "-", "4", "2", "-", "B", "L", "U", "E">> /\ last.before[LastDesc].desc = <<>> /\ ~last.mapped.found) =>
            /\ rows[LastDesc].desc = <<"W", "i", "d", "g", "e", "t", " ", "4", "2", " ", "B", "l", "u", "e">>
            /\ rows[LastCat].cat = last.before[LastCat].cat

\* C9 happens: WIDGET-42-BLUE filled an empty description
C9_Witness ==
    /\ Ran
    /\ last.grammar = "fallback"
    /\ last.pn = <<"W", "I", "D", "G", "E", "T", "-", "4", "2", "-", "B", "L", "U", "E">>
    /\ last.before[1].desc = <<>>
    /\ rows[1].desc = <<"W", "i", "d", "g", "e", "t", " ", "4", "2", " ", "B", "l", "u", "e">>
    /\ rows[1].cat = NoSelection

\* text appended after ", " when it is present
Suffix(text) == IF text # <<>> THEN <<",", " ">> \o text ELSE <<>>

\* C10: RES-4K7-5%-0.25W, with no mapping, gets the description
\* 4.7kΩ, 1/4w, 5% and the category Resistor when that is an option; the
\* Resistor grammar's description is the formatted value, then the normalized
\* wattage, then the tolerance, comma-separated, each only if the token holds it.
C10_ResistorEndToEnd ==
    Ran =>
        /\ (last.pn = <<"R", "E", "S", "-", "4", "K", "7", "-", "5", "%", "-", "0", ".", "2", "5", "W">> /\ ~last.mapped.found) =>
            /\ last.grammar = "resistor"
            /\ rows[LastDesc].desc = <<"4", ".", "7", "k", "Ω", ",", " ", "1", "/", "4", "w", ",", " ", "5", "%">>
            /\ Matching(<<"R", "e", "s", "i", "s", "t", "o", "r">>) # {} => rows[LastCat].cat = options[Min(Matching(<<"R", "e", "s", "i", "s", "t", "o", "r">>))].value
        /\ last.grammar = "resistor" =>
            rows[LastDesc].desc =
                formatResistor(ValueToken(MatchOf(last.pn, ResistorAt)))
                \o Suffix(normalizeWattage(extractWattage(last.pn)))
                \o Suffix(extractTolerance(last.pn))

\* C10 happens: RES-4K7-5%-0.25W on a page that has the option Resistor
C10_Witness ==
    /\ Ran
    /\ last.pn = <<"R", "E", "S", "-", "4", "K", "7", "-", "5", "%", "-", "0", ".", "2", "5", "W">>
    /\ ~last.mapped.found
    /\ rows[1].desc = <<"4", ".", "7", "k", "Ω", ",", " ", "1", "/", "4", "w", ",", " ", "5", "%">>
    /\ rows[1].cat = "Resistor"

\* C11: CAP-4u7-16V, with no mapping, is declined by the Mechanical grammar and
\* matched by the Capacitor grammar; the description is the upper-cased
\* capacitance, a comma and the voltage rating, 4.7UF, 16V, and the category is
\* Capacitor when that is an option.
C11_CapacitorEndToEnd ==
    (Ran /\ last.pn = <<"C", "A", "P", "-", "4", "u", "7", "-", "1", "6", "V">> /\ ~last.mapped.found) =>
        /\ ~buildMechanicalDescription(last.pn).matched
        /\ last.grammar = "capacitor"
        /\ rows[LastDesc].desc = <<"4", ".", "7", "U", "F", ",", " ", "1", "6", "V">>
        /\ rows[LastDesc].desc =
            toUpperCase(parseCapacitance(MatchOf(toLowerCase(last.pn), CapTokenAt)))
            \o <<",", " ">> \o extractVoltage(last.pn)
        /\ Matching(<<"C", "a", "p", "a", "c", "i", "t", "o", "r">>) # {} => rows[LastCat].cat = options[Min(Matching(<<"C", "a", "p", "a", "c", "i", "t", "o", "r">>))].value

\* C11 happens: CAP-4u7-16V on a page that has the option Capacitor
C11_Witness ==
    /\ Ran
    /\ last.pn = <<"C", "A", "P", "-", "4", "u", "7", "-", "1", "6", "V">>
    /\ ~last.mapped.found
    /\ rows[1].desc = <<"4", ".", "7", "U", "F", ",", " ", "1", "6", "V">>
    /\ rows[1].cat = "Capacitor"

\* C12 (as stated): MEC-WSH-M3-5mm, with no mapping, gets the description
\* Washer M3 0.2" diameter and the category Mechanical when that is an option.
C12_MechanicalEndToEnd ==
    (Ran /\ last.pn = <<"M", "E", "C", "-", "W", "S", "H", "-", "M", "3", "-", "5", "m", "m">> /\ ~last.mapped.found) =>
        /\ rows[LastDesc].desc = <<"W", "a", "s", "h", "e", "r", " ", "M", "3", " ", "0", ".", "2", "\"", " ", "d", "i", "a", "m", "e", "t", "e", "r">>
        /\ Matching(<<"M", "e", "c", "h", "a", "n", "i", "c", "a", "l">>) # {} => rows[LastCat].cat = options[Min(Matching(<<"M", "e", "c", "h", "a", "n", "i", "c", "a", "l">>))].value

\* C12 (amended): MEC-WSH-M3-5mm, with no mapping, gets the description
\* Washer M3 .20" diameter and the category Mechanical when that is an option:
\* the size token M3 is passed through, 5mm is 4/20 inch (the nearest 0.05),
\* rendered with two decimals and without its leading zero, and the washer
\* suffix follows.
C12_MechanicalEndToEndTwoDecimals ==
    (Ran /\ last.pn = <<"M", "E", "C", "-", "W", "S", "H", "-", "M", "3", "-", "5", "m", "m">> /\ ~last.mapped.found) =>
        /\ last.grammar = "mechanical"
        /\ formatMechanicalSize(<<"M", "3">>, TRUE) = <<"M", "3">>
        /\ mmToInchesRounded(<<"5", "m", "m">>) = [isNull |-> FALSE, twentieths |-> 4]
        /\ formatMechanicalSpec(<<"5", "m", "m">>) = <<".", "2", "0", "\"">>
        /\ rows[LastDesc].desc = <<"W", "a", "s", "h", "e", "r", " ", "M", "3", " ", ".", "2", "0", "\"", " ", "d", "i", "a", "m", "e", "t", "e", "r">>
        /\ Matching(<<"M", "e", "c", "h", "a", "n", "i", "c", "a", "l">>) # {} => rows[LastCat].cat = options[Min(Matching(<<"M", "e", "c", "h", "a", "n", "i", "c", "a", "l">>))].value

\* C12 happens: MEC-WSH-M3-5mm on a page that has the option Mechanical
C12_Witness ==
    /\ Ran
    /\ last.pn = <<"M", "E", "C", "-", "W", "S", "H", "-", "M", "3", "-", "5", "m", "m">>
    /\ ~last.mapped.found
    /\ rows[1].desc = <<"W", "a", "s", "h", "e", "r", " ", "M", "3", " ", ".", "2", "0", "\"", " ", "d", "i", "a", "m", "e", "t", "e", "r">>
    /\ rows[1].cat = "Mechanical"

\* The value token the resistor rules hand to formatResistor in the last run
LastValueToken == ValueToken(MatchOf(last.pn, ResistorAt))

\* The description written by the last run starts with text
DescriptionStarts(text) == startsWith(rows[LastDesc].desc, text)

\* C13 (as stated): formatResistor gives 4.7kΩ for 4700, 470Ω for 470 and
\* 4.7kΩ for 4K7: a bare number from 1000 up is rendered as the shorthand
\* notation of the same resistance is.
C13_FormatResistorResults ==
    (Ran /\ last.grammar = "resistor") =>
        /\ DescriptionStarts(formatResistor(LastValueToken))
        /\ LastValueToken = <<"4", "7", "0", "0">> => formatResistor(LastValueToken) = <<"4", ".", "7", "k", "Ω">>
        /\ LastValueToken = <<"4", "7", "0", "0">> => formatResistor(LastValueToken) = formatResistor(<<"4", "K", "7">>)
        /\ LastValueToken = <<"4", "7", "0">> => formatResistor(LastValueToken) = <<"4", "7", "0", "Ω">>
        /\ LastValueToken = <<"4", "K", "7">> => formatResistor(LastValueToken) = <<"4", ".", "7", "k", "Ω">>

\* C13 (amended): formatResistor gives 4.70kΩ for 4700, 470Ω for 470 and 4.7kΩ
\* for 4K7: a bare number from 1000 up and below 1,000,000 is divided by 1000
\* and rendered with two decimals, only a final .00 taken off, then kΩ (which
\* is not always the form of the shorthand notation); a bare number below 1000
\* gets the ohm sign unscaled.
C13_FormatResistorTwoDecimals ==
    (Ran /\ last.grammar = "resistor") =>
        /\ DescriptionStarts(formatResistor(LastValueToken))
        /\ LastValueToken = <<"4", "7", "0", "0">> => formatResistor(LastValueToken) = <<"4", ".", "7", "0", "k", "Ω">>
        /\ LastValueToken = <<"4", "7", "0", "0">> => formatResistor(LastValueToken) # formatResistor(<<"4", "K", "7">>)
        /\ LastValueToken = <<"4", "7", "0">> => formatResistor(LastValueToken) = <<"4", "7", "0", "Ω">>
        /\ LastValueToken = <<"4", "K", "7">> => formatResistor(LastValueToken) = <<"4", ".", "7", "k", "Ω">>
        /\ (IsDigits(LastValueToken) /\ ToNat(LastValueToken) < 1000)
            => formatResistor(LastValueToken) = StripLeadingZeros(LastValueToken) \o <<"Ω">>
        /\ (IsDigits(LastValueToken) /\ ToNat(LastValueToken) >= 1000 /\ ToNat(LastValueToken) < 1000000)
            => formatResistor(LastValueToken)
                = StripDot00(toFixed2(ToNat(LastValueToken), 3)) \o <<"k", "Ω">>

\* C13 happens: RES-4700 got 4.70kΩ
C13_Witness ==
    /\ Ran
    /\ last.grammar = "resistor"
    /\ LastValueToken = <<"4", "7", "0", "0">>
    /\ rows[1].desc = <<"4", ".", "7", "0", "k", "Ω">>

\* X1-100 was processed under a mapping that gives it the category Sensor
SensorLocked ==
    /\ Ran
    /\ last.pn = <<"X", "1", "-", "1", "0", "0">>
    /\ last.mapped.found
    /\ last.mapped.category = <<"S", "e", "n", "s", "o", "r">>

\* C14 (as stated): with X1 mapped to Sensor, X1-100 keeps the category Sensor
\* and is handled by the Resistor grammar, which writes what it computes for 100.
C14_MappingLockResistor ==
    SensorLocked =>
        /\ Matching(<<"S", "e", "n", "s", "o", "r">>) # {} => rows[LastCat].cat = options[Min(Matching(<<"S", "e", "n", "s", "o", "r">>))].value
        /\ last.grammar = "resistor"
        /\ rows[LastDesc].desc = formatResistor(<<"1", "0", "0">>)

\* C14 (amended): with X1 mapped to Sensor, X1-100 keeps the category Sensor;
\* the Resistor grammar declines it (the token holds no "res"), as does every
\* other grammar; the generic fallback writes X1 100 when the description is
\* empty and nothing otherwise, and no grammar writes a category.
C14_MappingLockFallback ==
    SensorLocked =>
        /\ Matching(<<"S", "e", "n", "s", "o", "r">>) # {} => rows[LastCat].cat = options[Min(Matching(<<"S", "e", "n", "s", "o", "r">>))].value
        /\ ~resistorRules(last.pn).matched
        /\ last.grammar \in {"fallback", "none"}
        /\ GrammarCategoryWrites = {}
        /\ rows[LastDesc].desc =
            IF last.before[LastDesc].desc = <<>> THEN <<"X", "1", " ", "1", "0", "0">> ELSE last.before[LastDesc].desc

\* C14 happens: X1-100 under X1 -> Sensor got Sensor and X1 100
C14_Witness ==
    /\ SensorLocked
    /\ last.grammar = "fallback"
    /\ rows[1].cat = "Sensor"
    /\ rows[1].desc = <<"X", "1", " ", "1", "0", "0">>

\* The segments the Mechanical grammar reads: the token without a leading MEC- or MEC_
TypeSegments(pn) ==
    Segments(IF MecPrefixed(pn) THEN StripFamilyPrefix(pn, <<"m", "e", "c">>) ELSE pn, {"-"})

\* The first of these segments is a type code of the fixed table
TypeInTable(pn) ==
    /\ TypeSegments(pn) # <<>>
    /\ Lookup(MECHANICAL_TYPE_DETAILS, toLowerCase(TypeSegments(pn)[1])) # <<>>

\* C15 (as stated): the Mechanical grammar matches a token only if it starts
\* with MEC- or MEC_ and its first segment after the prefix is a type code of
\* the fixed table; a token without the prefix or with an unknown type code is
\* declined by the Mechanical grammar and handled by a later grammar.
C15_MechanicalTrigger ==
    Ran =>
        /\ buildMechanicalDescription(last.pn).matched => (MecPrefixed(last.pn) /\ TypeInTable(last.pn))
        /\ ~MecPrefixed(last.pn) => last.grammar # "mechanical"
        /\ ~TypeInTable(last.pn) => last.grammar # "mechanical"

\* C15, its second half alone: a token whose type code is not in the fixed
\* table is declined by the Mechanical grammar.
C15_UnknownTypeDeclined ==
    (Ran /\ ~TypeInTable(last.pn)) => last.grammar # "mechanical"

\* The token begins with res, an optional - or _, and a value token
BeginsWithRes(pn) == ResistorAt(pn, 1) > 0

\* The category writes of the last run that ask for Resistor
ResistorCategoryWrites ==
    {k \in GrammarCategoryWrites : last.effects[k].text = <<"R", "e", "s", "i", "s", "t", "o", "r">>}

\* C16 (as stated): the Resistor grammar matches a token only when the token
\* begins with RES (any case), an optional - or _ and an alphanumeric value
\* token; a token that holds res only after its start is not handled by the
\* Resistor grammar and gets no category Resistor.
C16_ResistorTrigger ==
    Ran =>
        /\ resistorRules(last.pn).matched => BeginsWithRes(last.pn)
        /\ ~BeginsWithRes(last.pn) => (last.grammar # "resistor" /\ ResistorCategoryWrites = {})

\* capToken[1] of the last run ("" when the trigger did not match)
LastCapToken == MatchOf(toLowerCase(last.pn), CapTokenAt)

\* The Capacitor grammar was reached with a substring for which parseCapacitance gives nothing
NoCapacitance ==
    /\ Ran
    /\ ~buildMechanicalDescription(last.pn).matched
    /\ LastCapToken # <<>>
    /\ parseCapacitance(LastCapToken) = <<>>

\* The category writes of the last run that ask for Capacitor
CapacitorCategoryWrites ==
    {k \in GrammarCategoryWrites : last.effects[k].text = <<"C", "a", "p", "a", "c", "i", "t", "o", "r">>}

\* C17 (as stated): when parseCapacitance gives nothing for the substring the
\* Capacitor trigger matched, the Capacitor grammar declines, voltage rating or
\* not: it writes no description and no category Capacitor, and a later
\* grammar handles the token.
C17_CapacitorDeclines ==
    NoCapacitance => (last.grammar # "capacitor" /\ CapacitorCategoryWrites = {})

\* C17 (amended): when parseCapacitance gives nothing for the matched
\* substring, the Capacitor grammar declines only if the token holds no
\* voltage rating either; with a voltage rating it writes the rating alone as
\* the description and asks for the category Capacitor.
C17_CapacitorDeclinesWithoutVoltage ==
    NoCapacitance =>
        IF extractVoltage(toLowerCase(last.pn)) = <<>>
        THEN last.grammar \notin {"mechanical", "capacitor"} /\ CapacitorCategoryWrites = {}
        ELSE /\ last.grammar = "capacitor"
             /\ rows[LastDesc].desc = extractVoltage(toLowerCase(last.pn))
             /\ GrammarCategoryWrites = CapacitorCategoryWrites
             /\ ~last.mapped.found => CapacitorCategoryWrites # {}

\* C17 happens: CAP-100n-50V, for which parseCapacitance gives nothing, got 50V and Capacitor
C17_Witness ==
    /\ NoCapacitance
    /\ last.pn = <<"C", "A", "P", "-", "1", "0", "0", "n", "-", "5", "0", "V">>
    /\ last.grammar = "capacitor"
    /\ rows[1].desc = <<"5", "0", "V">>
    /\ CapacitorCategoryWrites # {}

\* C17 happens too: CAP-100n, with no voltage rating, was declined by the Capacitor grammar
C17_WitnessDeclined ==
    /\ NoCapacitance
    /\ last.pn = <<"C", "A", "P", "-", "1", "0", "0", "n">>
    /\ last.grammar = "fallback"

\* In the last run every grammar declined and the generic fallback wrote nothing
AllDeclined == Ran /\ last.grammar = "none"

\* C18 (as stated): when all grammars decline and the generic fallback does not
\* apply or gives nothing, the run changes neither the description field nor
\* the category field.
C18_NoMatchNoWrite ==
    AllDeclined =>
        /\ rows[LastDesc].desc = last.before[LastDesc].desc
        /\ rows[LastCat].cat = last.before[LastCat].cat

\* C18 (amended): when all grammars decline and the generic fallback does not
\* apply or gives nothing, the run writes no description and no grammar
\* category; the category field is changed by the prefix mapping alone: it
\* holds the mapped category when the lookup found one with a matching
\* option, and is unchanged otherwise.
C18_NoMatchOnlyMappingWrites ==
    AllDeclined =>
        /\ Positions(last.effects, "description") = {}
        /\ GrammarCategoryWrites = {}
        /\ rows[LastDesc].desc = last.before[LastDesc].desc
        /\ rows[LastCat].cat =
            IF last.mapped.found
            THEN setCategory(last.before[LastCat].cat, last.mapped.category)
            ELSE last.before[LastCat].cat

\* C18 happens: all grammars declined MEC, and the mapping of mec changed its category
C18_Witness ==
    /\ AllDeclined
    /\ last.pn = <<"M", "E", "C">>
    /\ last.mapped.found
    /\ last.before[1].cat = NoSelection
    /\ rows[1].cat = "Sensor"

\* C18 happens too: all grammars declined with no mapping, and nothing changed
C18_WitnessUnmapped ==
    /\ AllDeclined
    /\ ~last.mapped.found
    /\ last.before[1].desc # <<>>
    /\ rows[1] = last.before[1]

\* The last handler was autoFillFromPartNumber, whatever path it took
AutoFilled == last.op = "autoFill"

\* The rows of the page before the last run, other than the row of the run
OtherRows == DOMAIN last.before \ {last.row}

\* The first row of the page before the last run that has a description input
\* (a category select), in document order; 0 when none has
FirstWithDesc == Least({j \in DOMAIN last.before : last.before[j].hasDesc})
FirstWithCat == Least({j \in DOMAIN last.before : last.before[j].hasCat})

\* The description and category writes of a run without the rows they went to
WriteTexts(es) ==
    [k \in DOMAIN Writes(es) |-> <<Writes(es)[k].kind, Writes(es)[k].text, Writes(es)[k].by>>]

\* The writes of autoFillFromPartNumber on a page of one row that holds the
\* token of the last run and the description its description field held
WritesAlone ==
    WriteTexts(autoFillFromPartNumber(
        << Row(last.before[last.row].pn, last.before[LastDesc].desc, TRUE, TRUE) >>, mappings, 1).effects)

C19_WitnessFallback ==
    /\ Ran
    /\ ~last.before[last.row].hasDesc
    /\ LastDesc # last.row
    /\ rows[LastDesc].desc # last.before[LastDesc].desc

\* The token holds esp32, in any case
HoldsEsp32(pn) == FirstPos(pn, Esp32At) > 0

\* The token begins with the letters of one of the family prefixes
FamilyPrefixes == { <<"m", "e", "c">>, <<"c", "a", "p">>, <<"r", "e", "s">>, <<"d", "i", "o">>, <<"t", "r", "n">>, <<"i", "n", "d">>, <<"i", "c">> }
BeginsWithFamily(pn) == \E family \in FamilyPrefixes : LitAt(pn, 1, family)

\* One of the grammars 1 to 7 matches the token
EarlierGrammarMatches(pn) ==
    \/ buildMechanicalDescription(pn).matched
    \/ capacitorRules(toLowerCase(pn)).matched
    \/ resistorRules(pn).matched
    \/ buildDiodeDescription(pn).matched
    \/ buildTransistorDescription(pn).matched
    \/ buildInductorDescription(pn).matched
    \/ buildICDescription(pn).matched

\* The last run wrote the fixed ESP32 description, and the category MCU unless
\* a mapping locked another one
Esp32Written ==
    /\ last.grammar = "esp32"
    /\ rows[LastDesc].desc = <<"E", "S", "P", "3", "2", " ", "s", "e", "r", "i", "e", "s", " ", "m", "i", "c", "r", "o", "c", "o", "n", "t", "r", "o", "l", "l", "e", "r">>
    /\ \A k \in GrammarCategoryWrites : last.effects[k].text = <<"M", "C", "U">>
    /\ ~last.mapped.found =>
        /\ GrammarCategoryWrites # {}
        /\ Matching(<<"M", "C", "U">>) # {} => rows[LastCat].cat = options[Min(Matching(<<"M", "C", "U">>))].value

\* C20 (as stated): every token that holds esp32, in any case, and begins with
\* none of mec, cap, res, dio, trn, ind, ic gets the description ESP32 series
\* microcontroller and, when no mapping locks another category, the category MCU.
C20_Esp32Always ==
    (Ran /\ HoldsEsp32(last.pn) /\ ~BeginsWithFamily(last.pn)) => Esp32Written

\* C20 (amended): every token that holds esp32, in any case, and that none of
\* the grammars 1 to 7 matches gets the description ESP32 series
\* microcontroller and, when no mapping locks another category, the category
\* MCU; a token that holds esp32 and that an earlier grammar matches is
\* handled by that grammar.
C20_Esp32UnlessEarlierGrammar ==
    (Ran /\ HoldsEsp32(last.pn)) =>
        IF EarlierGrammarMatches(last.pn)
        THEN last.grammar \in {"mechanical", "capacitor", "resistor", "diode", "transistor", "inductor", "ic"}
        ELSE Esp32Written

\* C20 happens: ESP32-WROOM got the ESP32 description and the category MCU
C20_Witness ==
    /\ Ran
    /\ last.pn = <<"E", "S", "P", "3", "2", "-", "W", "R", "O", "O", "M">>
    /\ ~last.mapped.found
    /\ rows[1].desc = <<"E", "S", "P", "3", "2", " ", "s", "e", "r", "i", "e", "s", " ", "m", "i", "c", "r", "o", "c", "o", "n", "t", "r", "o", "l", "l", "e", "r">>
    /\ rows[1].cat = "MCU"

\* C20 happens too: ESP32-WROOM-32U was taken by the Capacitor grammar
C20_WitnessCapacitor ==
    /\ Ran
    /\ last.pn = <<"E", "S", "P", "3", "2", "-", "W", "R", "O", "O", "M", "-", "3", "2", "U">>
    /\ last.grammar = "capacitor"
    /\ rows[1].desc = <<"3", "2", "U", "F">>

----------------------------------------------------------------------------
(* Resistor tokens, re-invocation and unresolvable mappings *)

\* <value> of a token RES-<value>: its first segment after the prefix
ResValue(pn) == Segments(StripFamilyPrefix(pn, <<"r", "e", "s">>), {"-"})[1]

\* A resistance in a shape formatResistor accepts: a bare number, a number
\* followed by R, K or M, or digits, one of R, K, M, and digits (any case)
ResistanceShaped(v) ==
    \/ IsDecimal(v)
    \/ Len(v) > 1 /\ IsDecimal(SubSeq(v, 1, Len(v) - 1)) /\ toUpperCase(v)[Len(v)] \in {"R", "K", "M"}
    \/ \E k \in 2..(Len(v) - 1) :
        /\ IsDigits(SubSeq(v, 1, k - 1))
        /\ toUpperCase(v)[k] \in {"R", "K", "M"}
        /\ IsDigits(From(v, k + 1))

\* The last run was on a token RES-<value> of such a value, with no matching
\* prefix mapping and Resistor among the options
ResistorToken ==
    /\ Ran
    /\ ~last.mapped.found
    /\ Matching(<<"R", "e", "s", "i", "s", "t", "o", "r">>) # {}
    /\ HasFamilyPrefix(last.pn, <<"r", "e", "s">>)
    /\ last.pn[4] = "-"
    /\ Segments(StripFamilyPrefix(last.pn, <<"r", "e", "s">>), {"-"}) # <<>>
    /\ ResistanceShaped(ResValue(last.pn))

\* C21: with no matching prefix mapping and Resistor among the options, every
\* token RES-<value> whose value is a resistance in a shape formatResistor
\* accepts is handled by the Resistor grammar: it ends with the category
\* Resistor and a description that starts with formatResistor(<value>).
C21_ResTokensAreResistors ==
    ResistorToken =>
        /\ last.grammar = "resistor"
        /\ rows[LastCat].cat = options[Min(Matching(<<"R", "e", "s", "i", "s", "t", "o", "r">>))].value
        /\ DescriptionStarts(formatResistor(ResValue(last.pn)))

\* C21 without the shorthand <digits>R<digits>: the other shapes are handled by
\* the Resistor grammar.
C21_ExceptShorthandR ==
    (ResistorToken /\ ~CapShaped(last.pn)) =>
        /\ last.grammar = "resistor"
        /\ rows[LastCat].cat = options[Min(Matching(<<"R", "e", "s", "i", "s", "t", "o", "r">>))].value
        /\ DescriptionStarts(formatResistor(ResValue(last.pn)))

\* C22: when autoFillFromPartNumber runs twice in a row on the same row, the
\* description and the category of every row after the second run are those
\* after the first run, also when the second run performs other writes or
\* calls addRow.
C22_DestinationsFixedPoint ==
    [][(/\ last.op = "autoFill"
        /\ last'.op = "autoFill"
        /\ last'.row = last.row)
       => \A j \in DOMAIN rows :
            /\ rows'[j].desc = rows[j].desc
            /\ rows'[j].cat = rows[j].cat]_vars

\* C22 happens: the second run on X1-100 wrote nothing where the first wrote
\* X1 100, called addRow, and left the description and the category
C22_Witness ==
    /\ calls = 2
    /\ Ran
    /\ last.row = 1
    /\ last.pn = <<"X", "1", "-", "1", "0", "0">>
    /\ last.grammar = "none"
    /\ last.mapped.found
    /\ Positions(last.effects, "addRow") # {}
    /\ last.before[1].desc = <<"X", "1", " ", "1", "0", "0">>
    /\ rows[1].desc = <<"X", "1", " ", "1", "0", "0">>
    /\ rows[1].cat = last.before[1].cat
    /\ rows[1].cat # NoSelection

\* The last run found a prefix mapping whose category is the text of no option
UnresolvableMapping ==
    /\ Ran
    /\ last.mapped.found
    /\ Matching(last.mapped.category) = {}

\* C23: when a prefix mapping matches the token and its category is the text
\* of no option, the category is locked all the same: the run leaves the
\* category field as it was, also when the grammar that matched declares a
\* category that is an option, and it still writes the description of that
\* grammar.
C23_UnresolvableMappingLocks ==
    UnresolvableMapping =>
        /\ rows[LastCat].cat = last.before[LastCat].cat
        /\ last.grammar # "none" =>
            /\ Positions(last.effects, "description") # {}
            /\ rows[LastDesc].desc = Cascade(last.pn, last.before[LastDesc].desc).description

\* C23 happens: RES-470R under res -> Unknown-Label got 470Ω and kept its
\* category, Resistor being an option
C23_Witness ==
    /\ UnresolvableMapping
    /\ last.pn = <<"R", "E", "S", "-", "4", "7", "0", "R">>
    /\ last.mapped.category = <<"U", "n", "k", "n", "o", "w", "n", "-", "L", "a", "b", "e", "l">>
    /\ last.grammar = "resistor"
    /\ Matching(<<"R", "e", "s", "i", "s", "t", "o", "r">>) # {}
    /\ rows[1].desc = <<"4", "7", "0", "Ω">>
    /\ rows[1].cat = NoSelection

====
